---------------------------- MODULE Spec2Model ----------------------------
(***************************************************************************)
(* Model of the news pipeline: RSS aggregation (src/src/rss_parser.py),    *)
(* the SQLite ledger of processed links (src/src/database.py), the         *)
(* Telegram publisher (src/src/telegram_bot.py), the image extractor      *)
(* (src/src/image_extractor.py), the summarizer (src/src/summarizer.py)    *)
(* and the orchestrator NewsBot.run (src/main.py).                         *)
(*                                                                         *)
(* Texts are sequences of code points.  A collaborator's behaviour (HTTP   *)
(* status, exception, database error) is an input of the action that       *)
(* calls it, drawn from the outcomes its code distinguishes.               *)
(***************************************************************************)
EXTENDS Integers, Sequences, FiniteSets, TLC

VARIABLES
    feeds,        \* what each configured source serves: [Sources -> Seq(entry)]
    ledger,       \* rows of processed_articles: set of [link, title, source]
    pc,           \* position of NewsBot.run
    run,          \* number of runs started
    stats,        \* the stats dict of the current run
    articles,     \* result of fetch_all in the current run
    queue,        \* articles_to_process
    i,            \* loop index of enumerate(articles_to_process, 1)
    clients,      \* which httpx clients are open: [telegram, image]
    calls,        \* how often the current run made each call
    connection,   \* answer of test_connection in the current run
    step,         \* what the last loop iteration of run did
    ledgerAtStart,\* ledger when the current run started
    delivered,    \* per link, how many publishes succeeded over all runs
                  \* (counted up to DeliveredCap)
    call,         \* the last TelegramPoster.post call and what it sent
    fetched,      \* the last RSSParser.fetch_all call on its own
    recorded,     \* the last Database.mark_processed call on its own
    exit_code,    \* exit status of the process: <<>> while it runs, then
                  \* <<status>>
    config,       \* the Config of the process:
                  \* [max_articles_per_run, rss_feeds]
    failures,     \* links whose article failed: [last, now, ok], those
                  \* with only failed attempts in the previous run and in
                  \* the current one, and those that succeeded in it
    extracted,    \* the last ImageExtractor.extract call on its own
    handled,      \* the last NewsBot.process_article call on its own
    steps,        \* the awaits of the loop of run, in the order they
                  \* completed: sequence of [index, op]
    clock,        \* the date, in days
    processed_at, \* column processed_at: for each link of ledger the day
                  \* its row was inserted
    conns,        \* per writer, its mark_processed call in progress
    purged,       \* the last Database.cleanup_old call
    entry,        \* the last feed entry cleaned on its own: the raw text
                  \* and the fields fetch_feed made of it
    gathering,    \* a fetch_all call fetch by fetch: the sources in the
                  \* order their fetch completed, and what it returned
    procs         \* per process, where its run is, when two processes
                  \* share one ledger

\* the variables of the parts checked on their own
articleVars == <<extracted, handled, steps>>
ledgerVars == <<clock, processed_at, conns, purged>>
partVars == <<entry, gathering, procs>>

vars == <<feeds, ledger, pc, run, stats, articles, queue, i, clients, calls,
          connection, step, ledgerAtStart, delivered, call, fetched,
          recorded, exit_code, config, failures, articleVars, ledgerVars, partVars>>

runVars == <<feeds, ledger, pc, run, stats, articles, queue, i, clients, calls,
             connection, step, ledgerAtStart, delivered, fetched, recorded,
             exit_code, config, failures, articleVars, ledgerVars, partVars>>

---------------------------------------------------------------------------
(* Bounds of the model *)

\* number of runs of the process that are explored
MaxRuns == 2
\* total number of entries served by all sources together
MaxEntries == 2
\* how far around each length limit the text lengths are taken
Slack == 1
\* deliveries of one link are counted up to this number
DeliveredCap == 2
\* entries served by all sources together when fetch_all is checked alone
MaxFetched == 3
\* timestamps of those entries are 1..MaxTime
MaxTime == 3
\* the days 0..MaxClock are explored when the ledger is checked alone
MaxClock == 2

(* Program constants *)

\* telegram_bot.py:153  caption limit
CaptionLimit == 1024
\* telegram_bot.py:115  message limit
TextLimit == 4096
\* telegram_bot.py:116  length kept of a message that is too long
TextCut == 4000
\* rss_parser.py:59  entries taken from one feed
FeedEntryLimit == 10
\* rss_parser.py:142  length that _clean_html cuts to
HtmlLimit == 2000
\* config.py:50  default of max_articles_per_run
DefaultMaxArticles == 5
\* telegram_bot.py:39  timeout of the Bot API client, in seconds
TelegramTimeout == 30
\* image_extractor.py:56  timeout of the page client, in seconds
ImageTimeout == 15

None == "None"

Sources == {"s1", "s2"}
\* order of self.feeds
FeedOrder == <<"s1", "s2">>
Links == {"a", "b"}
Times == {1, 2}
Titles == {"T"}

Entry == [link : Links, title : Titles, published : Times]

---------------------------------------------------------------------------
(* Sequences helpers *)

Take(s, n) == SubSeq(s, 1, IF n < Len(s) THEN n ELSE Len(s))

RECURSIVE SeqsUpTo(_, _)
SeqsUpTo(S, n) ==
    IF n = 0 THEN {<<>>}
    ELSE LET shorter == SeqsUpTo(S, n - 1)
         IN shorter \cup {Append(s, x) : s \in {t \in shorter : Len(t) = n - 1}, x \in S}

RECURSIVE SumLen(_, _)
SumLen(f, S) ==
    IF S = {} THEN 0
    ELSE LET s == CHOOSE x \in S : TRUE IN Len(f[s]) + SumLen(f, S \ {s})

---------------------------------------------------------------------------
(* TelegramPoster: src/src/telegram_bot.py *)

\* "\n\n<i>... (сообщение обрезано)</i>" as code points
Marker == <<10, 10, 60, 105, 62, 46, 46, 46, 32, 40, 1089, 1086, 1086, 1073,
            1097, 1077, 1085, 1080, 1077, 32, 1086, 1073, 1088, 1077, 1079,
            1072, 1085, 1086, 41, 60, 47, 105, 62>>

\* outcome of one HTTP request to the Bot API
SendEnvs == {"200", "non200", "exception"}

\* variant: the caption is never cut
caption_uncut(text) == text

\* caption = text[:1024] if len(text) > 1024 else text
caption_of(text) ==
    IF Len(text) > CaptionLimit THEN SubSeq(text, 1, CaptionLimit) ELSE text

\* variant: the message is cut at the limit itself, the marker comes on top
message_cut_at_limit(text) ==
    IF Len(text) > TextLimit THEN SubSeq(text, 1, TextLimit) \o Marker ELSE text

\* if len(text) > 4096: text = text[:4000] + marker
message_of(text) ==
    IF Len(text) > TextLimit THEN SubSeq(text, 1, TextCut) \o Marker ELSE text

\* _send_with_image: the photo and caption sent, and the boolean returned
send_with_image(text, image_url, env) ==
    [ok |-> env = "200", photo |-> image_url, caption |-> caption_of(text)]

\* _send_text
send_text(text, env) ==
    [ok |-> env = "200", given |-> text, message |-> message_of(text)]

\* the request that was not made
NoPhoto == [ok |-> FALSE, photo |-> None, caption |-> <<>>]
NoText == [ok |-> FALSE, given |-> <<>>, message |-> <<>>]

\* variant: a refused image is final, no text-only attempt follows
post_no_fallback(text, image_url, imgEnv, txtEnv) ==
    LET withImage == image_url \notin {None, ""}
        img == IF withImage THEN send_with_image(text, image_url, imgEnv) ELSE NoPhoto
        useText == ~withImage
        txt == IF useText THEN send_text(text, txtEnv) ELSE NoText
    IN [text |-> text, image_url |-> image_url,
        imageAttempted |-> withImage, image |-> img,
        textAttempted |-> useText, textOnly |-> txt,
        result |-> IF useText THEN txt.ok ELSE img.ok]

\* variant: the fallback is handed the caption instead of the text
post_caption_fallback(text, image_url, imgEnv, txtEnv) ==
    LET withImage == image_url \notin {None, ""}
        img == IF withImage THEN send_with_image(text, image_url, imgEnv) ELSE NoPhoto
        useText == ~withImage \/ ~img.ok
        txt == IF useText
               THEN send_text(IF withImage THEN img.caption ELSE text, txtEnv)
               ELSE NoText
    IN [text |-> text, image_url |-> image_url,
        imageAttempted |-> withImage, image |-> img,
        textAttempted |-> useText, textOnly |-> txt,
        result |-> IF useText THEN txt.ok ELSE TRUE]

\* post(text, image_url): image first when there is one, text otherwise or
\* when the image was refused
post(text, image_url, imgEnv, txtEnv) ==
    LET withImage == image_url \notin {None, ""}
        img == IF withImage THEN send_with_image(text, image_url, imgEnv) ELSE NoPhoto
        useText == ~withImage \/ ~img.ok
        txt == IF useText THEN send_text(text, txtEnv) ELSE NoText
    IN [text |-> text, image_url |-> image_url,
        imageAttempted |-> withImage, image |-> img,
        textAttempted |-> useText, textOnly |-> txt,
        result |-> IF useText THEN txt.ok ELSE TRUE]

\* test_connection: getMe answered 200 with ok = true
ConnEnvs == {"ok", "not_ok", "non200", "exception"}
test_connection(env) == env = "ok"

---------------------------------------------------------------------------
(* Database: src/src/database.py *)

known(db, link) == \E r \in db : r.link = link

\* is_processed: a sqlite3.Error is logged and answered False
is_processed(db, link, dbError) ==
    IF dbError THEN FALSE ELSE known(db, link)

\* variant: INSERT OR REPLACE, the row of a known link is written again
mark_processed_replaces(db, link, title, source, dbError) ==
    IF dbError THEN [db |-> db, inserted |-> FALSE]
    ELSE [db |-> {r \in db : r.link # link}
                   \cup {[link |-> link, title |-> title, source |-> source]},
          inserted |-> TRUE]

\* variant: the row written before the sqlite3.Error is not rolled back
mark_processed_no_rollback(db, link, title, source, dbError) ==
    IF known(db, link) THEN [db |-> db, inserted |-> FALSE]
    ELSE [db |-> db \cup {[link |-> link, title |-> title, source |-> source]},
          inserted |-> ~dbError]

\* mark_processed: INSERT OR IGNORE, rowcount > 0; a sqlite3.Error rolls the
\* transaction back and answers False
mark_processed(db, link, title, source, dbError) ==
    IF dbError THEN [db |-> db, inserted |-> FALSE]
    ELSE IF known(db, link) THEN [db |-> db, inserted |-> FALSE]
    ELSE [db |-> db \cup {[link |-> link, title |-> title, source |-> source]},
          inserted |-> TRUE]

\* the rows of db that DELETE ... WHERE processed_at < datetime('now',
\* '-{days} days') selects; at gives processed_at per link
older_than(db, at, now, days) == {r \in db : at[r.link] < now - days}

\* variant: the DELETE is committed, no VACUUM follows
cleanup_old_without_vacuum(db, at, now, days, dbError) ==
    LET old == older_than(db, at, now, days)
    IN IF dbError THEN [db |-> db, deleted |-> 0]
       ELSE [db |-> db \ old, deleted |-> Cardinality(old)]

\* cleanup_old: DELETE, then VACUUM when rows were deleted, on the same
\* connection and before its commit.  The DELETE has opened a transaction
\* and SQLite refuses VACUUM inside one ("cannot VACUUM from within a
\* transaction"): that sqlite3.Error rolls the DELETE back and 0 is answered
cleanup_old(db, at, now, days, dbError) ==
    LET old == older_than(db, at, now, days)
        deleted == Cardinality(old)
        vacuumRaises == deleted > 0
    IN IF dbError \/ vacuumRaises THEN [db |-> db, deleted |-> 0]
       ELSE [db |-> db \ old, deleted |-> deleted]

\* variant: writers do not exclude each other
busy_never(cs, w) == FALSE

\* SQLite admits one write transaction at a time: the INSERT of w finds the
\* database locked while another connection has written and not committed
busy(cs, w) == \E v \in DOMAIN cs : v # w /\ cs[v].pc = "inserted"

---------------------------------------------------------------------------
(* RSSParser: src/src/rss_parser.py *)

\* fetch_feed: the first 10 entries of the feed, or [] when the fetch failed
fetch_feed(source, failed) ==
    IF failed THEN <<>>
    ELSE LET es == Take(feeds[source], FeedEntryLimit)
         IN [k \in 1..Len(es) |->
                [link |-> es[k].link, title |-> es[k].title,
                 published |-> es[k].published, source |-> source]]

\* list.sort(key = published, reverse = True): stable, descending
RECURSIVE InsertDesc(_, _)
InsertDesc(sorted, x) ==
    IF sorted = <<>> THEN <<x>>
    ELSE IF Head(sorted).published >= x.published
         THEN <<Head(sorted)>> \o InsertDesc(Tail(sorted), x)
         ELSE <<x>> \o sorted

RECURSIVE SortDesc(_)
SortDesc(s) ==
    IF s = <<>> THEN <<>>
    ELSE InsertDesc(SortDesc(SubSeq(s, 1, Len(s) - 1)), s[Len(s)])

RECURSIVE Gather(_, _)
Gather(k, failedSources) ==
    IF k = 0 THEN <<>>
    ELSE Gather(k - 1, failedSources)
         \o fetch_feed(config.rss_feeds[k], config.rss_feeds[k] \in failedSources)

\* variant: the merged list is returned as gathered, without the sort
fetch_all_unsorted(failedSources) ==
    Gather(Len(config.rss_feeds), failedSources)

\* variant: one failing source empties the whole result
fetch_all_all_or_nothing(failedSources) ==
    IF \E k \in 1..Len(config.rss_feeds) : config.rss_feeds[k] \in failedSources
    THEN <<>>
    ELSE SortDesc(Gather(Len(config.rss_feeds), failedSources))

\* fetch_all: every feed, concatenated in the order of self.feeds, sorted
fetch_all(failedSources) ==
    SortDesc(Gather(Len(config.rss_feeds), failedSources))

\* entry.get("published") of an entry without a date, or with one that
\* is not understood
NoDate == 0

\* _parse_date: the date of the entry, or datetime.now() when it has none
parse_date(published, now) == IF published = NoDate THEN now ELSE published

\* the entries 1..k of es that _parse_date reads the clock for
Undated(es, k) == Cardinality({m \in 1..k : es[m].published = NoDate})

\* fetch_feed when its feed has been parsed after `readings` readings of
\* the clock: the dates of the feeds lie in the past (1..MaxTime), every
\* reading of the clock is later than the one before
fetch_feed_at(source, failed, readings) ==
    IF failed THEN <<>>
    ELSE LET es == Take(feeds[source], FeedEntryLimit)
         IN [k \in 1..Len(es) |->
                [link |-> es[k].link, title |-> es[k].title,
                 published |-> parse_date(es[k].published,
                                          MaxTime + readings + Undated(es, k)),
                 source |-> source]]

\* one task of gather completes: fetch_feed of source goes on after its
\* await and builds its articles
complete(g, source, failed) ==
    LET es == IF failed THEN <<>> ELSE Take(feeds[source], FeedEntryLimit)
    IN [g EXCEPT !.order = Append(@, source),
                 !.failed = IF failed THEN @ \cup {source} ELSE @,
                 !.results[source] = fetch_feed_at(source, failed, g.readings),
                 !.readings = @ + Undated(es, Len(es))]

\* results of gather: one per task, in the order of the tasks
RECURSIVE Results(_, _)
Results(g, k) ==
    IF k = 0 THEN <<>>
    ELSE Results(g, k - 1) \o g.results[config.rss_feeds[k]]


\* what fetch_all returns when every task has completed
gathered(g) == SortDesc(Results(g, Len(config.rss_feeds)))

---------------------------------------------------------------------------
(* ImageExtractor.extract and GeminiSummarizer.summarize as seen by run *)

\* OG_IMAGE_PATTERNS, in the order of the list: og:image with property
\* before content, og:image with content before property, twitter:image
\* with name before content, twitter:image with content before name
Patterns == <<"og_property_content", "og_content_property",
              "twitter_name_content", "twitter_content_name">>

\* what the first match of a pattern captures, made absolute: nothing
\* ("none"), or a URL that is shorter than 10 characters ("short"), has an
\* image extension, names a known CDN, holds an image keyword, or has none
\* of these ("plain")
Candidates == {"none", "short", "plain", "extension", "cdn", "keyword"}

\* _is_valid_image_url
is_valid_image_url(candidate) == candidate \in {"extension", "cdn", "keyword"}

\* the answer of the GET: 200, a status raise_for_status refuses, a timeout,
\* any other exception
PageEnvs == {"200", "status_error", "timeout", "error"}

NoImage == [image |-> FALSE, pattern |-> 0, candidate |-> "none"]

\* the patterns of the list from position k on: the first whose match is a
\* valid URL is returned, a match that is not valid is passed over
RECURSIVE search_from(_, _)
search_from(k, page) ==
    IF k > Len(Patterns) THEN NoImage
    ELSE IF page[k] # "none" /\ is_valid_image_url(page[k])
    THEN [image |-> TRUE, pattern |-> k, candidate |-> page[k]]
    ELSE search_from(k + 1, page)

\* extract on a page: every exception of the request is caught and answered
\* None; page gives, per pattern, what it captures
extract_page(env, page) ==
    IF env # "200" THEN NoImage ELSE search_from(1, page)

\* the cases of extract that run can tell apart, and a page of each case
ExtractEnvs == {"image", "no_match", "invalid", "http_error", "timeout", "error"}
page_env(env) ==
    CASE env = "http_error" -> "status_error"
      [] env = "timeout" -> "timeout"
      [] env = "error" -> "error"
      [] OTHER -> "200"
page_of(env) ==
    [k \in 1..Len(Patterns) |->
        IF k # 1 THEN "none"
        ELSE CASE env = "image" -> "extension"
               [] env = "invalid" -> "plain"
               [] OTHER -> "none"]

\* extract: the image URL, or None on every other path
extract(env) ==
    IF extract_page(page_env(env), page_of(env)).image THEN "img" ELSE None

SummarizeEnvs == {"text", "only_fence", "fenced_text", "whitespace", "blocked",
                  "empty", "invalid_argument", "resource_exhausted", "api_error",
                  "error"}
SummaryText == <<8364, 33>>
\* "```" as code points
Fence == <<96, 96, 96>>

\* "```htm", the least that the first pattern of _clean_response takes
HtmlFence == Fence \o <<104, 116, 109>>

\* _generate_sync: response.text, or None when the response has no parts
\* (blocked or empty) and when generate_content raises InvalidArgument,
\* ResourceExhausted, another GoogleAPIError or any other exception
generate_sync(env) ==
    CASE env = "text" -> [none |-> FALSE, text |-> SummaryText]
      [] env = "only_fence" -> [none |-> FALSE, text |-> Fence]
      [] env = "fenced_text" ->
            [none |-> FALSE,
             text |-> HtmlFence \o <<108, 10>> \o SummaryText \o <<10>> \o Fence]
      [] env = "whitespace" -> [none |-> FALSE, text |-> <<32, 10>>]
      [] OTHER -> [none |-> TRUE, text |-> <<>>]

\* the code points str.strip() removes, as far as the responses use them
Whitespace == {9, 10, 13, 32}

\* str.strip(): leading and trailing whitespace removed
RECURSIVE lstrip(_)
lstrip(text) ==
    IF text # <<>> /\ Head(text) \in Whitespace THEN lstrip(Tail(text)) ELSE text

RECURSIVE rstrip(_)
rstrip(text) ==
    IF text # <<>> /\ text[Len(text)] \in Whitespace
    THEN rstrip(SubSeq(text, 1, Len(text) - 1)) ELSE text

strip(text) == rstrip(lstrip(text))

StartsWith(text, prefix) ==
    Len(text) >= Len(prefix) /\ SubSeq(text, 1, Len(prefix)) = prefix

Drop(text, n) == SubSeq(text, n + 1, Len(text))

\* re.sub(r'^```html?\s*\n?', '', text, flags=re.MULTILINE): at the start
\* of a line, "```htm", an optional "l" and all whitespace that follows
\* are removed
RECURSIVE sub_opening(_, _)
sub_opening(text, lineStart) ==
    IF text = <<>> THEN <<>>
    ELSE IF lineStart /\ StartsWith(text, HtmlFence)
    THEN LET tag == Drop(text, Len(HtmlFence))
             spaces == IF tag # <<>> /\ Head(tag) = 108 THEN Tail(tag) ELSE tag
             rest == lstrip(spaces)
             last == text[Len(text) - Len(rest)]
         IN sub_opening(rest, last = 10)
    ELSE <<Head(text)>> \o sub_opening(Tail(text), Head(text) = 10)

\* the whitespace that \s*$ takes after a closing fence: all of it when it
\* runs to the end of the text, otherwise up to its last newline; -1 when
\* the line goes on after the fence
closing_run(after) ==
    LET taken == Len(after) - Len(lstrip(after))
        newlines == {k \in 1..taken : after[k] = 10}
    IN IF taken = Len(after) THEN taken
       ELSE IF newlines = {} THEN -1
       ELSE (CHOOSE k \in newlines : \A m \in newlines : m <= k) - 1

\* re.sub(r'\n?```\s*$', '', text, flags=re.MULTILINE): a fence with
\* nothing but whitespace after it on its line is removed, with the
\* newline before it
RECURSIVE sub_closing(_)
sub_closing(text) ==
    IF text = <<>> THEN <<>>
    ELSE LET fence == IF Head(text) = 10 /\ StartsWith(Tail(text), Fence)
                      THEN Tail(text) ELSE text
             after == Drop(fence, Len(Fence))
         IN IF StartsWith(fence, Fence) /\ closing_run(after) >= 0
            THEN sub_closing(Drop(after, closing_run(after)))
            ELSE <<Head(text)>> \o sub_closing(Tail(text))

\* _clean_response: the two substitutions, then strip()
clean_response(text) == strip(sub_closing(sub_opening(text, TRUE)))

\* variant: the text of the error is returned in place of None
summarize_returns_error_text(env) ==
    LET result == generate_sync(env)
    IN IF result.none /\ env \notin {"blocked", "empty"}
       THEN [none |-> FALSE, text |-> SummaryText]
       ELSE IF result.none THEN [none |-> TRUE, text |-> <<>>]
       ELSE [none |-> FALSE, text |-> strip(clean_response(result.text))]

\* summarize: the cleaned and stripped text, or None (none = TRUE) when
\* _generate_sync gave None or ""; every exception is caught and answered
\* None.  A response that is only a code fence or only whitespace is
\* cleaned to ""
summarize(env) ==
    LET result == generate_sync(env)
    IN IF result.none \/ result.text = <<>>
       THEN [none |-> TRUE, text |-> <<>>]
       ELSE [none |-> FALSE, text |-> strip(clean_response(result.text))]

---------------------------------------------------------------------------
(* RSSParser._clean_html and _clean_text: src/src/rss_parser.py, on code
   points *)

\* the table of _clean_html, in the order of the dict: entity and character
Entities ==
    << [entity |-> <<38, 97, 109, 112, 59>>, char |-> <<38>>],
       [entity |-> <<38, 108, 116, 59>>, char |-> <<60>>],
       [entity |-> <<38, 103, 116, 59>>, char |-> <<62>>],
       [entity |-> <<38, 113, 117, 111, 116, 59>>, char |-> <<34>>],
       [entity |-> <<38, 35, 51, 57, 59>>, char |-> <<39>>],
       [entity |-> <<38, 110, 98, 115, 112, 59>>, char |-> <<32>>],
       [entity |-> <<38, 109, 100, 97, 115, 104, 59>>, char |-> <<8212>>],
       [entity |-> <<38, 110, 100, 97, 115, 104, 59>>, char |-> <<8211>> ] >>

\* re.sub(r"<[^>]+>", " ", text): "<", one character at least that is not
\* ">", and the next ">" become one space
RECURSIVE sub_tags(_)
sub_tags(text) ==
    IF text = <<>> THEN <<>>
    ELSE LET closes == {q \in 3..Len(text) : text[q] = 62}
         IN IF Head(text) = 60 /\ Len(text) >= 3 /\ text[2] # 62 /\ closes # {}
            THEN <<32>> \o sub_tags(Drop(text,
                            CHOOSE q \in closes : \A r \in closes : q <= r))
            ELSE <<Head(text)>> \o sub_tags(Tail(text))

\* re.sub(r"\s+", " ", text): every run of whitespace becomes one space
RECURSIVE sub_spaces(_)
sub_spaces(text) ==
    IF text = <<>> THEN <<>>
    ELSE IF Head(text) \in Whitespace THEN <<32>> \o sub_spaces(lstrip(text))
    ELSE <<Head(text)>> \o sub_spaces(Tail(text))

\* str.replace(old, new): the occurrences of old, from the left
RECURSIVE replace(_, _, _)
replace(text, old, new) ==
    IF text = <<>> THEN <<>>
    ELSE IF StartsWith(text, old) THEN new \o replace(Drop(text, Len(old)), old, new)
    ELSE <<Head(text)>> \o replace(Tail(text), old, new)

\* for entity, char in entities.items(): clean = clean.replace(entity, char)
RECURSIVE decode(_, _)
decode(text, k) ==
    IF k > Len(Entities) THEN text
    ELSE decode(replace(text, Entities[k].entity, Entities[k].char), k + 1)

\* _clean_html: tags removed, whitespace normalised and stripped, then the
\* entities decoded, then the first 2000 characters
clean_html(text) ==
    IF text = <<>> THEN <<>>
    ELSE Take(decode(strip(sub_spaces(sub_tags(text))), 1), HtmlLimit)

\* _clean_text: whitespace normalised and stripped, nothing else
clean_text(text) ==
    IF text = <<>> THEN <<>> ELSE strip(sub_spaces(text))

\* the text matches <[^>]+> somewhere
HasTag(text) ==
    \E p \in 1..Len(text) : \E q \in (p + 2)..Len(text) :
        /\ text[p] = 60 /\ text[q] = 62
        /\ \A m \in (p + 1)..(q - 1) : text[m] # 62

\* two whitespace characters in a row
HasSpaceRun(text) ==
    \E p \in 1..(Len(text) - 1) :
        text[p] \in Whitespace /\ text[p + 1] \in Whitespace

\* an entity of the table occurs in the text
HasEntity(text) ==
    \E k \in 1..Len(Entities) : \E p \in 0..Len(text) :
        StartsWith(Drop(text, p), Entities[k].entity)

---------------------------------------------------------------------------
(* NewsBot: src/main.py *)

\* variant: a missing summary does not stop the article, post is called
process_article_posts_anyway(article, extEnv, sumEnv, imgEnv, txtEnv) ==
    LET image_url == extract(extEnv)
        summary == summarize(sumEnv)
        sent == post(summary.text, image_url, imgEnv, txtEnv)
    IN [summaryNone |-> summary.none,
        posted |-> TRUE,
        result |-> sent.result,
        success |-> sent.result]

\* variant: an article without image is given up before the summary
process_article_needs_image(article, extEnv, sumEnv, imgEnv, txtEnv) ==
    LET image_url == extract(extEnv)
        summary == summarize(sumEnv)
        noSummary == summary.none \/ summary.text = <<>>
        sent == post(summary.text, image_url, imgEnv, txtEnv)
        go == image_url # None /\ ~noSummary
    IN [summaryNone |-> summary.none,
        posted |-> go,
        result |-> go /\ sent.result,
        success |-> go /\ sent.result]

\* variant: only a summary of None stops the article, "" is posted
process_article_posts_empty(article, extEnv, sumEnv, imgEnv, txtEnv) ==
    LET image_url == extract(extEnv)
        summary == summarize(sumEnv)
        sent == post(summary.text, image_url, imgEnv, txtEnv)
    IN [summaryNone |-> summary.none,
        posted |-> ~summary.none,
        result |-> ~summary.none /\ sent.result,
        success |-> ~summary.none /\ sent.result]

\* process_article: image, then summary, then post; False as soon as the
\* summary is missing (None or "") or when post answers False.
\* posted: post was called; result: what it answered
process_article(article, extEnv, sumEnv, imgEnv, txtEnv) ==
    LET image_url == extract(extEnv)
        summary == summarize(sumEnv)
        noSummary == summary.none \/ summary.text = <<>>
        sent == post(summary.text, image_url, imgEnv, txtEnv)
    IN [summaryNone |-> summary.none,
        posted |-> ~noSummary,
        result |-> ~noSummary /\ sent.result,
        success |-> ~noSummary /\ sent.result]

\* new_articles: the articles that is_processed answers False for;
\* dbErrors are the positions at which the query raises sqlite3.Error
RECURSIVE new_articles(_, _, _)
new_articles(as, db, dbErrors) ==
    IF as = <<>> THEN <<>>
    ELSE LET n == Len(as)
             rest == new_articles(SubSeq(as, 1, n - 1), db, dbErrors)
         IN IF is_processed(db, as[n].link, n \in dbErrors)
            THEN rest ELSE Append(rest, as[n])

\* new_articles[:max_articles_per_run]: a slice, so a negative bound counts
\* from the end of the list
articles_to_process(new, cap) ==
    IF cap >= 0 THEN Take(new, cap)
    ELSE IF Len(new) + cap > 0 THEN SubSeq(new, 1, Len(new) + cap)
    ELSE <<>>

\* variant: the article is marked whatever process_article answered
commit_always(success, db, article, dbError) ==
    mark_processed(db, article.link, article.title, article.source, dbError).db

\* the ledger after the loop body: mark_processed only when success
commit(success, db, article, dbError) ==
    IF success
    THEN mark_processed(db, article.link, article.title, article.source, dbError).db
    ELSE db

\* variant: a failed article is not counted
count_successes_only(st, success) ==
    IF success THEN [st EXCEPT !.articles_processed = @ + 1] ELSE st

\* stats after the loop body
count(st, success) ==
    IF success
    THEN [st EXCEPT !.articles_processed = @ + 1]
    ELSE [st EXCEPT !.articles_failed = @ + 1]

\* variant: run goes on to fetch_all whatever test_connection answered
after_connection_unchecked(ok) == "fetch"

\* after test_connection: fetch_all, or return through finally
after_connection(ok) == IF ok THEN "fetch" ELSE "finally_return"

\* variant: the loop is left after its first article
after_article_stops(index, n) == "report"

\* variant: an interruption leaves run at once, the finally block is skipped
after_interrupt_skips_finally(at) == "interrupted"

\* an interruption (CancelledError, KeyboardInterrupt) raised at an await of
\* the try block: no except clause matches, the finally block runs
after_interrupt(at) == "finally_interrupt"

\* an aclose() that raises inside cleanup
CloseEnvs == {"closed", "telegram_raises", "image_raises"}

\* cleanup: telegram.close() then image_extractor.close(); close() calls
\* aclose() and forgets the client only when there is one, and an aclose()
\* that raises ends cleanup there
cleanup(open, env) ==
    [telegram |-> open.telegram /\ env = "telegram_raises",
     image |-> open.image /\ env \in {"telegram_raises", "image_raises"}]

\* where run is after the finally block: an exception of cleanup leaves
\* run, an interruption goes on propagating, otherwise stats is returned
after_cleanup(at, env) ==
    IF env # "closed" THEN "raised"
    ELSE IF at = "finally_interrupt" THEN "interrupted"
    ELSE "done"

\* variant: any failed article makes the process exit 1
exit_status_any_failure(st) ==
    IF st.articles_failed > 0 THEN 1 ELSE 0

\* main: sys.exit(1) when articles_failed > 0 and articles_processed == 0,
\* otherwise main returns and the status is 0
exit_status(st) ==
    IF st.articles_failed > 0 /\ st.articles_processed = 0 THEN 1 ELSE 0

\* the calls of run that wait for the network, and where run awaits them
NetworkOps == {"test_connection", "fetch_feed", "extract", "post"}
awaited_at(op) ==
    CASE op = "test_connection" -> "check"
      [] op = "fetch_feed" -> "fetch"
      [] OTHER -> "process"

\* the timeout the call is made with, <<>> when it has none: the httpx
\* clients are built with one, feedparser.parse(url) is handed to the
\* executor without any
timeout_of(op) ==
    CASE op \in {"test_connection", "post"} -> <<TelegramTimeout>>
      [] op = "extract" -> <<ImageTimeout>>
      [] OTHER -> <<>>

\* variant: the pause follows every article, the last one too
after_article_always_sleeps(index, n) == "sleep"

\* after the loop body: sleep when another article follows
after_article(index, n) == IF index < n THEN "sleep" ELSE "report"

\* the awaits and the ledger write of one loop iteration, in the order of
\* the code of process_article and run
StepOps == <<"extract", "summarize", "post", "mark_processed", "sleep">>

\* variant: post is awaited before summarize
after_step_posts_first(op, ok, index, n) ==
    CASE op = "extract" -> "post"
      [] op = "post" -> "summarize"
      [] op = "summarize" -> IF ok THEN "mark_processed" ELSE after_article(index, n)
      [] op = "mark_processed" -> after_article(index, n)
      [] OTHER -> "extract"

\* where the loop goes on after a step: process_article returns False
\* after a missing summary and after a post answered False, and run then
\* skips mark_processed
after_step(op, ok, index, n) ==
    CASE op = "extract" -> "summarize"
      [] op = "summarize" -> IF ok THEN "post" ELSE after_article(index, n)
      [] op = "post" -> IF ok THEN "mark_processed" ELSE after_article(index, n)
      [] op = "mark_processed" -> after_article(index, n)
      [] OTHER -> "extract"

\* no entry cleaned yet
NoEntry == [made |-> FALSE, raw |-> <<>>, title |-> <<>>, summary |-> <<>>,
            content |-> <<>>]

\* no fetch_all call under way
NoGather == [pc |-> "idle", order |-> <<>>, failed |-> {}, readings |-> 0,
             results |-> [s \in Sources |-> <<>>], out |-> <<>>]

\* the processes that share a ledger, none started
Procs == {"p1", "p2"}
\* queue: articles_to_process, what is left of it; sent: the links the
\* process has published; prior: the links that were published when it
\* filtered; found: the ledger it found then; follows: where the other
\* process was then; failing: the links whose summary or publish fails
\* every time, when the runs are repeated; dbErrors: whether
\* a call of the process to the ledger raised sqlite3.Error
NoProc == [pc |-> "idle", queue |-> <<>>, sent |-> {}, prior |-> {},
           found |-> {}, follows |-> "idle", dbErrors |-> FALSE,
           failing |-> {}]
NoProcs == [p \in Procs |-> NoProc]

NewStats ==
    [articles_found |-> 0, articles_new |-> 0, articles_processed |-> 0,
     articles_failed |-> 0, errors |-> <<>>, finished |-> FALSE]

NoStep ==
    [valid |-> FALSE, run |-> 0, index |-> 0, link |-> None,
     summaryNone |-> FALSE, posted |-> FALSE, result |-> FALSE,
     writeError |-> FALSE, inserted |-> FALSE, ledgerBefore |-> {}, statsBefore |-> NewStats]

NoCall ==
    [made |-> FALSE, text |-> <<>>, image_url |-> None, imgEnv |-> "200",
     txtEnv |-> "200", out |-> post(<<>>, None, "200", "200")]

\* deliveries are counted up to DeliveredCap
Counted(n) == IF n < DeliveredCap THEN n ELSE DeliveredCap

NoCalls ==
    [test_connection |-> 0, fetch_all |-> 0, summarize |-> 0, no_summary |-> 0,
     post |-> 0, post_false |-> 0, mark_processed |-> 0, write_error |-> 0,
     sleep |-> 0, report |-> 0, cleanup |-> 0,
     raised |-> 0, interrupted |-> 0, aclose_telegram |-> 0, aclose_image |-> 0]

\* the fetch_all call that was not made
NoFetch == [made |-> FALSE, failed |-> {}, out |-> <<>>]

\* the mark_processed call that was not made
NoRecord ==
    [made |-> FALSE, link |-> None, title |-> None, source |-> None,
     dbError |-> FALSE, before |-> {}, inserted |-> FALSE]

\* the writers of the ledger file: two processes, or threads, each with
\* connections of its own
Writers == {"w1", "w2"}

\* no mark_processed call in progress
NoConn ==
    [pc |-> "idle", link |-> None, title |-> None, fresh |-> FALSE,
     overlapped |-> FALSE, pending |-> {}, rowcount |-> 0,
     error |-> "none", answer |-> FALSE]
NoConns == [w \in Writers |-> NoConn]

\* the cleanup_old call that was not made
NoPurge ==
    [made |-> FALSE, days |-> 0, now |-> 0, dbError |-> FALSE, found |-> 0,
     lost |-> 0, answer |-> 0]

NoFailures == [last |-> {}, now |-> {}, ok |-> {}]

\* the extract call that was not made
NoExtract ==
    [made |-> FALSE, env |-> "200", page |-> [k \in 1..Len(Patterns) |-> "none"],
     out |-> NoImage]

\* the process_article call that was not made
NoHandled ==
    [made |-> FALSE, extEnv |-> "image", sumEnv |-> "text", imgEnv |-> "200",
     txtEnv |-> "200", image_url |-> None, summary |-> summarize("text"),
     out |-> [summaryNone |-> FALSE, posted |-> FALSE, result |-> FALSE,
              success |-> FALSE]]

\* Every assignment of at most MaxEntries entries to the sources.  Links are
\* interchangeable, so the first entry served is taken to carry link "a".
FeedSets ==
    {f \in [Sources -> SeqsUpTo(Entry, MaxEntries)] :
        /\ SumLen(f, Sources) <= MaxEntries
        /\ LET all == f[FeedOrder[1]] \o f[FeedOrder[2]]
           IN all = <<>> \/ all[1].link = "a"}

Init ==
    /\ feeds \in FeedSets
    /\ config \in [max_articles_per_run : {1, DefaultMaxArticles},
                  rss_feeds : {FeedOrder}]
    /\ ledger = {}
    /\ pc = "idle"
    /\ run = 0
    /\ stats = NewStats
    /\ articles = <<>>
    /\ queue = <<>>
    /\ i = 0
    /\ clients = [telegram |-> FALSE, image |-> FALSE]
    /\ calls = NoCalls
    /\ connection = "none"
    /\ step = NoStep
    /\ ledgerAtStart = {}
    /\ delivered = [l \in Links |-> 0]
    /\ call = NoCall
    /\ fetched = NoFetch
    /\ recorded = NoRecord
    /\ exit_code = <<>>
    /\ failures = NoFailures
    /\ extracted = NoExtract
    /\ handled = NoHandled
    /\ steps = <<>>
    /\ clock = 0
    /\ processed_at = [l \in Links |-> 0]
    /\ conns = NoConns
    /\ purged = NoPurge
    /\ entry = NoEntry
    /\ gathering = NoGather
    /\ procs = NoProcs

\* a process starts: NewsBot(config), then run() builds its stats.  With
\* track the links that failed are kept from one run to the next
StartRunWith(track) ==
    /\ pc \in {"idle", "done"}
    /\ run < MaxRuns
    /\ run' = run + 1
    /\ pc' = "check"
    /\ stats' = NewStats
    /\ articles' = <<>>
    /\ queue' = <<>>
    /\ i' = 0
    /\ clients' = [telegram |-> FALSE, image |-> FALSE]
    /\ calls' = NoCalls
    /\ connection' = "none"
    /\ step' = NoStep
    /\ ledgerAtStart' = ledger
    /\ failures' = IF track
                   THEN [last |-> failures.now, now |-> {}, ok |-> {}]
                   ELSE failures
    /\ UNCHANGED <<feeds, ledger, delivered, call, fetched,
                   recorded, exit_code, config,
                   articleVars, ledgerVars, partVars>>

StartRun == StartRunWith(FALSE)

\* run, step 1: test_connection; on failure the error is recorded and run
\* returns through finally
TestConnection ==
    /\ pc = "check"
    /\ \E env \in ConnEnvs :
         LET ok == test_connection(env)
         IN /\ connection' = IF ok THEN "ok" ELSE "failed"
            /\ stats' = IF ok THEN stats
                        ELSE [stats EXCEPT !.errors =
                                Append(@, "Telegram connection failed")]
            /\ pc' = after_connection(ok)
    /\ clients' = [clients EXCEPT !.telegram = TRUE]
    /\ calls' = [calls EXCEPT !.test_connection = @ + 1]
    /\ UNCHANGED <<feeds, ledger, run, articles, queue, i, step,
                   ledgerAtStart, delivered, call, fetched,
                   recorded, exit_code, config, failures,
                   articleVars, ledgerVars, partVars>>

\* run, step 2: fetch_all; an empty result returns through finally
FetchAll ==
    /\ pc = "fetch"
    /\ \E failedSources \in SUBSET Sources :
         LET got == fetch_all(failedSources)
         IN /\ articles' = got
            /\ stats' = [stats EXCEPT !.articles_found = Len(got)]
            /\ pc' = IF got = <<>> THEN "finally_return" ELSE "filter"
    /\ calls' = [calls EXCEPT !.fetch_all = @ + 1]
    /\ UNCHANGED <<feeds, ledger, run, queue, i, clients, connection, step,
                   ledgerAtStart, delivered, call, fetched,
                   recorded, exit_code, config, failures,
                   articleVars, ledgerVars, partVars>>

\* run, steps 3 and 4: filter by the ledger, then cap
Filter ==
    /\ pc = "filter"
    /\ \E dbErrors \in SUBSET (1..Len(articles)) :
         LET new == new_articles(articles, ledger, dbErrors)
             todo == articles_to_process(new, config.max_articles_per_run)
         IN /\ stats' = [stats EXCEPT !.articles_new = Len(new)]
            /\ queue' = todo
            /\ i' = IF todo = <<>> THEN 0 ELSE 1
            /\ pc' = IF todo = <<>> THEN "report" ELSE "process"
    /\ UNCHANGED <<feeds, ledger, run, articles, clients, calls, connection, step,
                   ledgerAtStart, delivered, call, fetched,
                   recorded, exit_code, config, failures,
                   articleVars, ledgerVars, partVars>>

\* what process_article can answer for an article, over every behaviour
\* of the page, the model and the Bot API
OutcomeTable ==
    {[article |-> article,
      out |-> process_article(article, extEnv, sumEnv, imgEnv, txtEnv)] :
        article \in [link : Links, title : Titles, published : Times,
                     source : Sources],
        extEnv \in ExtractEnvs, sumEnv \in SummarizeEnvs,
        imgEnv \in SendEnvs, txtEnv \in SendEnvs}
Outcomes(article) == {o.out : o \in {x \in OutcomeTable : x.article = article}}

\* run, step 5: one iteration of the loop up to the pause.  With track
\* the link is noted when its article failed
ProcessArticleWith(track) ==
    /\ pc = "process"
    /\ \E done \in Outcomes(queue[i]) :
       \E dbError \in (IF done.success THEN BOOLEAN ELSE {FALSE}) :
         LET article == queue[i]
         IN /\ ledger' = commit(done.success, ledger, article, dbError)
            /\ stats' = count(stats, done.success)
            /\ delivered' = IF done.posted /\ done.result
                            THEN [delivered EXCEPT ![article.link] = Counted(@ + 1)]
                            ELSE delivered
            /\ step' = [valid |-> TRUE, run |-> run, index |-> i,
                        link |-> article.link,
                        summaryNone |-> done.summaryNone,
                        posted |-> done.posted,
                        result |-> done.result,
                        writeError |-> dbError,
                        inserted |-> done.success
                            /\ mark_processed(ledger, article.link, article.title,
                                              article.source, dbError).inserted,
                        ledgerBefore |-> ledger, statsBefore |-> stats]
            /\ calls' = [calls EXCEPT
                 !.summarize = @ + 1,
                 !.no_summary = IF done.summaryNone THEN @ + 1 ELSE @,
                 !.post = IF done.posted THEN @ + 1 ELSE @,
                 !.post_false = IF done.posted /\ ~done.result THEN @ + 1 ELSE @,
                 !.mark_processed = IF done.success THEN @ + 1 ELSE @,
                 !.write_error = IF dbError THEN @ + 1 ELSE @]
            /\ failures' =
                 IF ~track THEN failures
                 ELSE IF done.success
                 THEN [failures EXCEPT !.now = @ \ {article.link},
                                       !.ok = @ \cup {article.link}]
                 ELSE IF article.link \in failures.ok THEN failures
                 ELSE [failures EXCEPT !.now = @ \cup {article.link}]
    /\ clients' = [clients EXCEPT !.image = TRUE]
    /\ pc' = after_article(i, Len(queue))
    /\ UNCHANGED <<feeds, run, articles, queue, i, connection, ledgerAtStart,
                   call, fetched,
                   recorded, exit_code, config,
                   articleVars, ledgerVars, partVars>>

ProcessArticle == ProcessArticleWith(FALSE)

\* run, step 5: asyncio.sleep(3) between two articles
Sleep ==
    /\ pc = "sleep"
    /\ i' = i + 1
    /\ pc' = "process"
    /\ calls' = [calls EXCEPT !.sleep = @ + 1]
    /\ UNCHANGED <<feeds, ledger, run, stats, articles, queue, clients,
                   connection, step,
                   ledgerAtStart, delivered, call, fetched,
                   recorded, exit_code, config, failures,
                   articleVars, ledgerVars, partVars>>

\* run, step 6: get_stats and the summary lines
Report ==
    /\ pc = "report"
    /\ pc' = "finally"
    /\ calls' = [calls EXCEPT !.report = @ + 1]
    /\ UNCHANGED <<feeds, ledger, run, stats, articles, queue, i, clients,
                   connection, step, ledgerAtStart, delivered, call, fetched,
                   recorded, exit_code, config, failures,
                   articleVars, ledgerVars, partVars>>

\* finally: cleanup closes the clients; finished_at is set only when run
\* goes on after the finally block, which it does not after a return
\* statement, an interruption or an exception of cleanup.  envs are the
\* behaviours of aclose() that are considered
CleanupWith(envs) ==
    /\ pc \in {"finally", "finally_return", "finally_except", "finally_interrupt"}
    /\ \E env \in envs :
         /\ env = "telegram_raises" => clients.telegram
         /\ env = "image_raises" => clients.image
         /\ clients' = cleanup(clients, env)
         /\ stats' = [stats EXCEPT !.finished =
                         env = "closed" /\ pc \in {"finally", "finally_except"}]
         /\ pc' = after_cleanup(pc, env)
         /\ calls' = [calls EXCEPT
              !.cleanup = @ + 1,
              !.aclose_telegram = IF clients.telegram THEN @ + 1 ELSE @,
              !.aclose_image = IF clients.image /\ env # "telegram_raises"
                               THEN @ + 1 ELSE @]
    /\ UNCHANGED <<feeds, ledger, run, articles, queue, i, connection, step,
                   ledgerAtStart, delivered, call, fetched,
                   recorded, exit_code, config, failures,
                   articleVars, ledgerVars, partVars>>

\* cleanup in which no aclose() raises
Cleanup == CleanupWith({"closed"})

Next ==
    \/ StartRun
    \/ TestConnection
    \/ FetchAll
    \/ Filter
    \/ ProcessArticle
    \/ Sleep
    \/ Report
    \/ Cleanup

\* Runs in which nothing reaches the top level of run: no exception other
\* than those the collaborators catch themselves, no interruption, no
\* aclose() that raises.  SpecMain below has them.
Spec == Init /\ [][Next]_vars

\* The same runs, with the links that failed kept from one run to the next
StartRunTracked == StartRunWith(TRUE)
ProcessArticleTracked == ProcessArticleWith(TRUE)

NextRetry ==
    \/ StartRunTracked
    \/ TestConnection
    \/ FetchAll
    \/ Filter
    \/ ProcessArticleTracked
    \/ Sleep
    \/ Report
    \/ Cleanup

SpecRetry == Init /\ [][NextRetry]_vars

---------------------------------------------------------------------------
(* main: one execution of the process.  Config.from_env reads
   MAX_ARTICLES_PER_RUN with int(), the ledger file is as earlier executions
   left it; the run can be left by an exception or an interruption, and the
   process ends with an exit status *)

\* values of MAX_ARTICLES_PER_RUN
CapValues == {-1, 0, 1, DefaultMaxArticles}

\* ledgers earlier executions can have left: one row at most per link
LedgerStates ==
    {db \in SUBSET [link : Links, title : Titles, source : Sources] :
        \A r1, r2 \in db : r1.link = r2.link => r1 = r2}

InitMain ==
    /\ feeds \in FeedSets
    /\ config \in [max_articles_per_run : CapValues, rss_feeds : {FeedOrder}]
    /\ ledger \in LedgerStates
    /\ pc = "idle"
    /\ run = 0
    /\ stats = NewStats
    /\ articles = <<>>
    /\ queue = <<>>
    /\ i = 0
    /\ clients = [telegram |-> FALSE, image |-> FALSE]
    /\ calls = NoCalls
    /\ connection = "none"
    /\ step = NoStep
    /\ ledgerAtStart = {}
    /\ delivered = [l \in Links |-> 0]
    /\ call = NoCall
    /\ fetched = NoFetch
    /\ recorded = NoRecord
    /\ exit_code = <<>>
    /\ failures = NoFailures
    /\ extracted = NoExtract
    /\ handled = NoHandled
    /\ steps = <<>>
    /\ clock = 0
    /\ processed_at = [l \in Links |-> 0]
    /\ conns = NoConns
    /\ purged = NoPurge
    /\ entry = NoEntry
    /\ gathering = NoGather
    /\ procs = NoProcs

\* bot = NewsBot(config); stats = await bot.run()
Main ==
    /\ pc = "idle"
    /\ StartRun

\* an exception raised in the try block of run: "except Exception" appends
\* it to errors, then the finally block runs
Raise ==
    /\ pc \in {"check", "fetch", "filter", "process", "sleep", "report"}
    /\ stats' = [stats EXCEPT !.errors = Append(@, "exception")]
    /\ pc' = "finally_except"
    /\ calls' = [calls EXCEPT !.raised = @ + 1]
    /\ UNCHANGED <<feeds, ledger, run, articles, queue, i, clients, connection,
                   step, ledgerAtStart, delivered, call, fetched,
                   recorded, exit_code, config, failures,
                   articleVars, ledgerVars, partVars>>

\* the task is cancelled while run awaits test_connection, fetch_all,
\* process_article or sleep
Interrupt ==
    /\ pc \in {"check", "fetch", "process", "sleep"}
    /\ pc' = after_interrupt(pc)
    /\ calls' = [calls EXCEPT !.interrupted = @ + 1]
    /\ UNCHANGED <<feeds, ledger, run, stats, articles, queue, i, clients,
                   connection, step, ledgerAtStart, delivered, call, fetched,
                   recorded, exit_code, config, failures,
                   articleVars, ledgerVars, partVars>>

\* cleanup, an aclose() may raise
CleanupAny == CleanupWith(CloseEnvs)

\* the peer of a call that has no timeout never answers: the await never
\* completes, run stays where it is
Hang ==
    /\ \E op \in NetworkOps :
         /\ pc = awaited_at(op)
         /\ timeout_of(op) = <<>>
    /\ pc' = "hung"
    /\ UNCHANGED <<feeds, ledger, run, stats, articles, queue, i, clients,
                   calls, connection, step, ledgerAtStart, delivered, call,
                   fetched, recorded, exit_code, config, failures,
                   articleVars, ledgerVars, partVars>>

\* the end of main.  run returned: exit_status of its stats.  cleanup
\* raised: "except Exception" exits 1.  Interrupted: main's "except
\* KeyboardInterrupt" returns (0) when the interrupt is raised inside the
\* coroutine, otherwise it leaves asyncio.run uncaught (130)
Exit ==
    /\ pc \in {"done", "raised", "interrupted"}
    /\ \E status \in (CASE pc = "done" -> {exit_status(stats)}
                        [] pc = "raised" -> {1}
                        [] pc = "interrupted" -> {0, 130}) :
         exit_code' = <<status>>
    /\ pc' = IF pc = "done" THEN "exited" ELSE "crashed"
    /\ UNCHANGED <<feeds, ledger, run, stats, articles, queue, i, clients, calls,
                   connection, step, ledgerAtStart, delivered, call, fetched,
                   recorded, config, failures,
                   articleVars, ledgerVars, partVars>>

NextMain ==
    \/ Main
    \/ TestConnection
    \/ FetchAll
    \/ Filter
    \/ ProcessArticle
    \/ Sleep
    \/ Report
    \/ Raise
    \/ Interrupt
    \/ CleanupAny
    \/ Hang
    \/ Exit

SpecMain == InitMain /\ [][NextMain]_vars

---------------------------------------------------------------------------
(* TelegramPoster.post on its own: the arguments and the answers of the Bot
   API are drawn initially (every text around the length limits, with and
   without an image), and the call is then made *)

Around(n) == (n - Slack)..(n + Slack)
Lengths == (0..Slack) \cup Around(CaptionLimit) \cup Around(TextCut)
           \cup Around(TextLimit)
\* a text of n code points; fill varies its content
TextOf(n, fill) == [j \in 1..n |-> 97 + ((j + fill) % 5)]
Texts == {TextOf(n, fill) : n \in Lengths, fill \in {0, 1}}
ImageUrls == {None, "", "img"}

InitPost ==
    /\ feeds = [s \in Sources |-> <<>>]
    /\ config = [max_articles_per_run |-> DefaultMaxArticles,
                 rss_feeds |-> FeedOrder]
    /\ ledger = {}
    /\ pc = "idle"
    /\ run = 0
    /\ stats = NewStats
    /\ articles = <<>>
    /\ queue = <<>>
    /\ i = 0
    /\ clients = [telegram |-> FALSE, image |-> FALSE]
    /\ calls = NoCalls
    /\ connection = "none"
    /\ step = NoStep
    /\ ledgerAtStart = {}
    /\ delivered = [l \in Links |-> 0]
    /\ fetched = NoFetch
    /\ recorded = NoRecord
    /\ exit_code = <<>>
    /\ failures = NoFailures
    /\ extracted = NoExtract
    /\ handled = NoHandled
    /\ steps = <<>>
    /\ clock = 0
    /\ processed_at = [l \in Links |-> 0]
    /\ conns = NoConns
    /\ purged = NoPurge
    /\ entry = NoEntry
    /\ gathering = NoGather
    /\ procs = NoProcs
    /\ \E text \in Texts, image_url \in ImageUrls,
          imgEnv \in SendEnvs, txtEnv \in SendEnvs :
         call = [NoCall EXCEPT !.text = text, !.image_url = image_url,
                               !.imgEnv = imgEnv, !.txtEnv = txtEnv]

\* await telegram.post(text, image_url)
PostCall ==
    /\ ~call.made
    /\ call' = [call EXCEPT
                  !.made = TRUE,
                  !.out = post(call.text, call.image_url, call.imgEnv, call.txtEnv)]
    /\ UNCHANGED runVars

NextPost == PostCall

SpecPost == InitPost /\ [][NextPost]_vars

---------------------------------------------------------------------------
(* RSSParser.fetch_all on its own: three sources; the entries, their
   timestamps and the source that serves each of them are drawn initially,
   the sources that fail are chosen when the call is made *)

FetchSources == <<"s1", "s2", "s3">>
FetchSourceSet == {FetchSources[k] : k \in 1..Len(FetchSources)}
FetchEntry == [link : {"a"}, title : Titles, published : 1..MaxTime]

\* the entries of t that owner gives to source s, in the order of t
RECURSIVE Served(_, _, _)
Served(t, owner, s) ==
    IF t = <<>> THEN <<>>
    ELSE LET n == Len(t)
             rest == Served(SubSeq(t, 1, n - 1), owner, s)
         IN IF owner[n] = s THEN Append(rest, t[n]) ELSE rest

InitFetch ==
    /\ \E t \in SeqsUpTo(FetchEntry, MaxFetched) :
       \E owner \in [1..Len(t) -> FetchSourceSet] :
         feeds = [s \in FetchSourceSet |-> Served(t, owner, s)]
    /\ config = [max_articles_per_run |-> DefaultMaxArticles,
                 rss_feeds |-> FetchSources]
    /\ ledger = {}
    /\ pc = "idle"
    /\ run = 0
    /\ stats = NewStats
    /\ articles = <<>>
    /\ queue = <<>>
    /\ i = 0
    /\ clients = [telegram |-> FALSE, image |-> FALSE]
    /\ calls = NoCalls
    /\ connection = "none"
    /\ step = NoStep
    /\ ledgerAtStart = {}
    /\ delivered = [l \in Links |-> 0]
    /\ call = NoCall
    /\ fetched = NoFetch
    /\ recorded = NoRecord
    /\ exit_code = <<>>
    /\ failures = NoFailures
    /\ extracted = NoExtract
    /\ handled = NoHandled
    /\ steps = <<>>
    /\ clock = 0
    /\ processed_at = [l \in Links |-> 0]
    /\ conns = NoConns
    /\ purged = NoPurge
    /\ entry = NoEntry
    /\ gathering = NoGather
    /\ procs = NoProcs

\* await self.rss_parser.fetch_all()
FetchCall ==
    /\ ~fetched.made
    /\ \E failedSources \in SUBSET FetchSourceSet :
         fetched' = [made |-> TRUE, failed |-> failedSources,
                     out |-> fetch_all(failedSources)]
    /\ UNCHANGED <<feeds, ledger, pc, run, stats, articles, queue, i, clients,
                   calls, connection, step, ledgerAtStart, delivered, call,
                   recorded, exit_code, config, failures,
                   articleVars, ledgerVars, partVars>>

NextFetch == FetchCall

SpecFetch == InitFetch /\ [][NextFetch]_vars

---------------------------------------------------------------------------
(* Properties of RSSParser.fetch_all, checked under SpecFetch *)

\* how many elements of the sequence s satisfy Test
CountIn(s, Test(_)) == Cardinality({k \in 1..Len(s) : Test(s[k])})

\* the timestamps of s are pairwise distinct
DistinctTimes(s) ==
    \A j, k \in 1..Len(s) : j # k => s[j].published # s[k].published

\* C12: the sequence returned by fetch_all is ordered by published,
\* most recent first, however the entries are spread over the sources;
\* when the timestamps are pairwise distinct the order is strictly
\* descending.
MergedNewestFirst ==
    fetched.made =>
        LET out == fetched.out
        IN /\ \A k \in 1..(Len(out) - 1) :
                 out[k].published >= out[k + 1].published
           /\ (DistinctTimes(out) =>
                 \A j, k \in 1..Len(out) :
                    j < k => out[j].published > out[k].published)

\* three sources served one entry each, the oldest by the first source and
\* the newest by the second; the result starts with the newest
ThreeSourcesInterleaved ==
    /\ fetched.made /\ fetched.failed = {}
    /\ \A s \in FetchSourceSet : Len(feeds[s]) = 1
    /\ feeds["s1"][1].published < feeds["s3"][1].published
    /\ feeds["s3"][1].published < feeds["s2"][1].published
    /\ Len(fetched.out) = 3
    /\ fetched.out[1].source = "s2" /\ fetched.out[3].source = "s1"

\* C13: a source whose fetch fails contributes no item, and the result
\* holds every item of every source that did not fail, as often as the
\* source serves it, whichever sources fail.
SourceFailureIsolated ==
    fetched.made =>
        /\ \A k \in 1..Len(fetched.out) :
              fetched.out[k].source \in FetchSourceSet \ fetched.failed
        /\ \A s \in FetchSourceSet \ fetched.failed :
           \A e \in FetchEntry :
              LET same(x) == /\ x.link = e.link /\ x.title = e.title
                             /\ x.published = e.published
                  from_s(x) == x.source = s /\ same(x)
              IN CountIn(fetched.out, from_s)
                   = CountIn(Take(feeds[s], FeedEntryLimit), same)
        /\ Len(fetched.out)
             = SumLen(feeds, FetchSourceSet \ fetched.failed)

\* one source failed while serving an entry, the two others served theirs
OneSourceFailedOthersServed ==
    /\ fetched.made
    /\ fetched.failed = {"s2"}
    /\ \A s \in FetchSourceSet : Len(feeds[s]) = 1
    /\ Len(fetched.out) = 2
    /\ {fetched.out[k].source : k \in 1..2} = {"s1", "s3"}

---------------------------------------------------------------------------
(* Database.mark_processed on its own: the table is drawn initially, the
   arguments and a possible sqlite3.Error are chosen at each call *)

RecordTitles == Titles \cup {"U"}

\* tables of processed_articles: link is UNIQUE
RecordLedgers ==
    {db \in SUBSET [link : Links, title : RecordTitles, source : Sources] :
        \A r1, r2 \in db : r1.link = r2.link => r1 = r2}

InitRecord ==
    /\ ledger \in RecordLedgers
    /\ feeds = [s \in Sources |-> <<>>]
    /\ config = [max_articles_per_run |-> DefaultMaxArticles,
                 rss_feeds |-> FeedOrder]
    /\ pc = "idle"
    /\ run = 0
    /\ stats = NewStats
    /\ articles = <<>>
    /\ queue = <<>>
    /\ i = 0
    /\ clients = [telegram |-> FALSE, image |-> FALSE]
    /\ calls = NoCalls
    /\ connection = "none"
    /\ step = NoStep
    /\ ledgerAtStart = {}
    /\ delivered = [l \in Links |-> 0]
    /\ call = NoCall
    /\ fetched = NoFetch
    /\ recorded = NoRecord
    /\ exit_code = <<>>
    /\ failures = NoFailures
    /\ extracted = NoExtract
    /\ handled = NoHandled
    /\ steps = <<>>
    /\ clock = 0
    /\ processed_at = [l \in Links |-> 0]
    /\ conns = NoConns
    /\ purged = NoPurge
    /\ entry = NoEntry
    /\ gathering = NoGather
    /\ procs = NoProcs

\* self.db.mark_processed(link, title, source)
MarkCall ==
    \E link \in Links, title \in RecordTitles, source \in Sources,
       dbError \in BOOLEAN :
        LET done == mark_processed(ledger, link, title, source, dbError)
        IN /\ ledger' = done.db
           /\ recorded' = [made |-> TRUE, link |-> link, title |-> title,
                           source |-> source, dbError |-> dbError,
                           before |-> ledger, inserted |-> done.inserted]
           /\ UNCHANGED <<feeds, pc, run, stats, articles, queue, i, clients,
                          calls, connection, step, ledgerAtStart, delivered,
                          call, fetched, exit_code, config, failures,
                   articleVars, ledgerVars, partVars>>

NextRecord == MarkCall

SpecRecord == InitRecord /\ [][NextRecord]_vars

---------------------------------------------------------------------------
(* The ledger file under two writers.  Every call opens a connection of its
   own (_get_connection).  mark_processed is split where another connection
   can come in between: connect, the INSERT (which takes the write lock of
   the file or finds it taken), the commit at the end of the with block.
   cleanup_old is one step and records how many rows its DELETE selected
   (found), how many other rows are gone after it (lost) and its answer;
   the date advances by days *)

LedgerSource == FeedOrder[1]

InitLedger ==
    /\ ledger = {}
    /\ feeds = [s \in Sources |-> <<>>]
    /\ config = [max_articles_per_run |-> DefaultMaxArticles,
                 rss_feeds |-> FeedOrder]
    /\ pc = "idle"
    /\ run = 0
    /\ stats = NewStats
    /\ articles = <<>>
    /\ queue = <<>>
    /\ i = 0
    /\ clients = [telegram |-> FALSE, image |-> FALSE]
    /\ calls = NoCalls
    /\ connection = "none"
    /\ step = NoStep
    /\ ledgerAtStart = {}
    /\ delivered = [l \in Links |-> 0]
    /\ call = NoCall
    /\ fetched = NoFetch
    /\ recorded = NoRecord
    /\ exit_code = <<>>
    /\ failures = NoFailures
    /\ extracted = NoExtract
    /\ handled = NoHandled
    /\ steps = <<>>
    /\ clock = 0
    /\ processed_at = [l \in Links |-> 0]
    /\ conns = NoConns
    /\ purged = NoPurge
    /\ entry = NoEntry
    /\ gathering = NoGather
    /\ procs = NoProcs

ledgerRest == <<feeds, pc, run, stats, articles, queue, i, clients, calls,
                connection, step, ledgerAtStart, delivered, call, fetched,
                recorded, exit_code, config, failures, articleVars,
                 partVars>>

\* mark_processed(link, title, source) is called by writer w: sqlite3.connect.
\* fresh: the link is not in the table now; overlapped: the other writer has
\* a call for the same link in progress
Connect(w) ==
    /\ conns[w].pc = "idle"
    /\ \E link \in Links :
         LET others == {v \in Writers \ {w} :
                          conns[v].pc \in {"connected", "inserted"}
                          /\ conns[v].link = link}
         IN conns' = [v \in Writers |->
                        IF v = w
                        THEN [NoConn EXCEPT !.pc = "connected", !.link = link,
                                            !.title = w,
                                            !.fresh = ~known(ledger, link),
                                            !.overlapped = others # {}]
                        ELSE IF v \in others
                        THEN [conns[v] EXCEPT !.overlapped = TRUE]
                        ELSE conns[v]]
    /\ UNCHANGED <<ledger, clock, processed_at, purged>>
    /\ UNCHANGED ledgerRest

\* cursor.execute(INSERT OR IGNORE ...): while the other writer holds the
\* write lock the statement waits, and raises "database is locked" when the
\* busy timeout runs out; any other sqlite3.Error is possible as well.  An
\* error is rolled back by _get_connection and answered False
Insert(w) ==
    /\ conns[w].pc = "connected"
    /\ \E error \in (IF busy(conns, w) THEN {"locked"} ELSE {"none", "sqlite"}) :
         LET c == conns[w]
             done == mark_processed(ledger, c.link, c.title, LedgerSource,
                                    error # "none")
         IN conns' = [conns EXCEPT ![w] =
                IF error # "none"
                THEN [c EXCEPT !.pc = "returned", !.error = error,
                               !.answer = FALSE]
                ELSE [c EXCEPT !.pc = "inserted",
                               !.pending = done.db \ ledger,
                               !.rowcount = IF done.inserted THEN 1 ELSE 0]]
    /\ UNCHANGED <<ledger, clock, processed_at, purged>>
    /\ UNCHANGED ledgerRest

\* the end of the with block: conn.commit(), and rowcount > 0 is answered;
\* a commit that raises is rolled back and answered False
Commit(w) ==
    /\ conns[w].pc = "inserted"
    /\ \E error \in {"none", "sqlite"} :
         LET c == conns[w]
         IN /\ ledger' = IF error = "none" THEN ledger \cup c.pending ELSE ledger
            /\ processed_at' =
                 IF error = "none" /\ c.pending # {}
                 THEN [processed_at EXCEPT ![c.link] = clock]
                 ELSE processed_at
            /\ conns' = [conns EXCEPT ![w] =
                  [c EXCEPT !.pc = "returned", !.pending = {},
                            !.error = error,
                            !.answer = error = "none" /\ c.rowcount > 0]]
    /\ UNCHANGED <<clock, purged>>
    /\ UNCHANGED ledgerRest

\* both writers go on to their next call once no call is in progress
NextCalls ==
    /\ \A w \in Writers : conns[w].pc \in {"idle", "returned"}
    /\ \E w \in Writers : conns[w].pc = "returned"
    /\ conns' = NoConns
    /\ UNCHANGED <<ledger, clock, processed_at, purged>>
    /\ UNCHANGED ledgerRest

\* cleanup_old(days); its DELETE finds the database locked (sqlite3.Error)
\* while a writer holds the write lock
PurgeCall ==
    /\ \E days \in 0..MaxClock :
       \E dbError \in (IF \E w \in Writers : conns[w].pc = "inserted"
                       THEN {TRUE} ELSE BOOLEAN) :
         LET done == cleanup_old(ledger, processed_at, clock, days, dbError)
         IN /\ ledger' = done.db
            /\ processed_at' = [l \in Links |->
                                  IF known(done.db, l) THEN processed_at[l] ELSE 0]
            /\ purged' = [made |-> TRUE, days |-> days, now |-> clock,
                          dbError |-> dbError,
                          found |-> Cardinality(
                              older_than(ledger, processed_at, clock, days)),
                          lost |-> Cardinality(
                              (ledger \ done.db)
                              \ older_than(ledger, processed_at, clock, days)),
                          answer |-> done.deleted]
    /\ UNCHANGED <<clock, conns>>
    /\ UNCHANGED ledgerRest

\* a day passes; a call takes less than a day
Tick ==
    /\ clock < MaxClock
    /\ \A w \in Writers : conns[w].pc \in {"idle", "returned"}
    /\ clock' = clock + 1
    /\ UNCHANGED <<ledger, processed_at, conns, purged>>
    /\ UNCHANGED ledgerRest

NextLedger ==
    \/ \E w \in Writers : Connect(w)
    \/ \E w \in Writers : Insert(w)
    \/ \E w \in Writers : Commit(w)
    \/ NextCalls
    \/ PurgeCall
    \/ Tick

SpecLedger == InitLedger /\ [][NextLedger]_vars

---------------------------------------------------------------------------
(* Properties of Database.mark_processed, checked under SpecRecord *)

\* C20: mark_processed answers True if and only if it inserted a new row;
\* for a link that is already there it answers False and leaves the table,
\* the row of that link included, as it was; a second identical call
\* changes nothing.
RecordInsertsOnce ==
    recorded.made =>
        LET row == [link |-> recorded.link, title |-> recorded.title,
                    source |-> recorded.source]
        IN /\ (recorded.inserted <=> ledger # recorded.before)
           /\ (recorded.inserted =>
                 /\ ~known(recorded.before, recorded.link)
                 /\ ledger = recorded.before \cup {row})
           /\ (known(recorded.before, recorded.link) =>
                 /\ ~recorded.inserted
                 /\ ledger = recorded.before)
           /\ (~recorded.dbError =>
                 /\ known(ledger, recorded.link)
                 /\ mark_processed(ledger, recorded.link, recorded.title,
                                   recorded.source, FALSE)
                      = [db |-> ledger, inserted |-> FALSE])
           /\ \A r1, r2 \in ledger : r1.link = r2.link => r1 = r2

\* a link recorded a second time under another title: answered False, the
\* first row is still the only one of that link
DuplicateRecordIgnored ==
    /\ recorded.made /\ ~recorded.dbError
    /\ known(recorded.before, recorded.link)
    /\ ~recorded.inserted
    /\ \E r \in ledger : r.link = recorded.link /\ r.title # recorded.title
    /\ ledger = recorded.before

---------------------------------------------------------------------------
(* Properties of TelegramPoster.post, checked under SpecPost *)

HasImage == call.image_url \notin {None, ""}

\* C4: post answers False only when the text-only delivery was attempted
\* and failed; a failed image delivery followed by a successful text-only
\* delivery answers True; a successful image delivery answers True and no
\* text-only delivery is made.
PostFalseOnlyIfTextFailed ==
    call.made =>
        /\ (~call.out.result =>
                call.out.textAttempted /\ call.txtEnv # "200")
        /\ (HasImage /\ call.imgEnv # "200" /\ call.txtEnv = "200" =>
                call.out.result /\ call.out.textAttempted)
        /\ (HasImage /\ call.imgEnv = "200" =>
                call.out.result /\ ~call.out.textAttempted)

\* a refused image, then an accepted text: post answered True
PostFellBackToText ==
    /\ call.made /\ HasImage
    /\ call.imgEnv # "200" /\ call.txtEnv = "200"
    /\ call.out.imageAttempted /\ call.out.textAttempted /\ call.out.result

\* C5: when image delivery fails, the text-only fallback is handed the
\* text given to post, not the caption cut to 1024 characters.
FallbackGetsOriginalText ==
    call.made /\ HasImage /\ call.imgEnv # "200" =>
        /\ call.out.textAttempted
        /\ call.out.textOnly.given = call.text

\* a refused image whose caption had been cut: the fallback text is longer
\* than the caption
FallbackAfterCutCaption ==
    /\ call.made /\ HasImage /\ call.imgEnv # "200"
    /\ Len(call.text) > CaptionLimit
    /\ Len(call.out.image.caption) = CaptionLimit
    /\ Len(call.out.textOnly.given) > CaptionLimit

\* C6: the caption sent with an image has at most 1024 characters; it is
\* the text when the text has at most 1024 characters and the first 1024
\* characters of the text otherwise.
CaptionCapped ==
    call.made /\ call.out.imageAttempted =>
        LET c == call.out.image.caption
            t == call.text
        IN /\ Len(c) <= CaptionLimit
           /\ (Len(t) <= CaptionLimit => c = t)
           /\ (Len(t) > CaptionLimit =>
                 /\ Len(c) = CaptionLimit
                 /\ \A j \in 1..CaptionLimit : c[j] = t[j])

\* an image sent with a text longer than the caption limit
CaptionWasCut ==
    /\ call.made /\ call.out.imageAttempted
    /\ Len(call.text) > CaptionLimit
    /\ Len(call.out.image.caption) < Len(call.text)

\* C7: the message of a text-only delivery has at most 4096 characters; a
\* text of at most 4096 characters is sent unchanged, a longer one as a
\* prefix of the text followed by the truncation marker, marker included
\* in the total.
TextCapped ==
    call.made /\ call.out.textAttempted =>
        LET m == call.out.textOnly.message
            t == call.text
            kept == Len(m) - Len(Marker)
        IN /\ Len(m) <= TextLimit
           /\ (Len(t) <= TextLimit => m = t)
           /\ (Len(t) > TextLimit =>
                 /\ kept >= 0 /\ kept < Len(t)
                 /\ \A j \in 1..kept : m[j] = t[j]
                 /\ \A j \in 1..Len(Marker) : m[kept + j] = Marker[j])

\* a text-only delivery of a text longer than the message limit
TextWasCut ==
    /\ call.made /\ call.out.textAttempted
    /\ Len(call.text) > TextLimit
    /\ Len(call.out.textOnly.message) < Len(call.text)

---------------------------------------------------------------------------
(* Properties of NewsBot.run, checked under Spec.  step describes the last
   iteration of the loop; the ledger and the stats change only in an
   iteration, so between two iterations they are as that iteration left
   them. *)

NoRedeliveryOfLedgered ==
    step.valid /\ step.posted => ~known(ledgerAtStart, step.link)

\* C3: over all runs, each link is published successfully at most once.
AtMostOnceDelivery ==
    \A l \in Links : delivered[l] <= 1

\* C8: a failure while an article is processed counts that article as
\* failed and the loop goes on: every article of articles_to_process is
\* attempted, and a run that passed the filter ends with
\* articles_processed + articles_failed = len(articles_to_process).
ItemFailureIsolated ==
    /\ (step.valid /\ ~step.result =>
            /\ stats.articles_failed = step.statsBefore.articles_failed + 1
            /\ stats.articles_processed = step.statsBefore.articles_processed)
    /\ (step.valid /\ step.index < Len(queue) => pc \in {"sleep", "process"})
    /\ (pc \in {"report", "finally", "done"} /\ stats.articles_found > 0 =>
            /\ stats.articles_processed + stats.articles_failed = Len(queue)
            /\ calls.summarize = Len(queue))

\* a finished run of two articles: the first failed, the second succeeded
SecondItemProcessedAfterFailure ==
    /\ pc = "done" /\ Len(queue) = 2
    /\ stats.articles_failed = 1 /\ stats.articles_processed = 1
    /\ step.index = 2 /\ step.result

\* C9: when summarize answers None for an article, the article is counted
\* failed, post is not called for it and the ledger is left as it was; the
\* loop goes on to the following articles.
NoSummaryFailsItemOnly ==
    step.valid /\ step.summaryNone =>
        /\ ~step.posted
        /\ ~step.result
        /\ ledger = step.ledgerBefore
        /\ stats.articles_failed = step.statsBefore.articles_failed + 1
        /\ stats.articles_processed = step.statsBefore.articles_processed
        /\ (step.index < Len(queue) => pc \in {"sleep", "process"})

\* summarize answered None for the first article; the second one of the
\* same run was published and recorded
SecondItemSucceedsAfterNoSummary ==
    /\ step.valid /\ step.index = 2 /\ step.result
    /\ calls.summarize = 2 /\ calls.no_summary = 1 /\ calls.post = 1
    /\ stats.articles_failed = 1 /\ stats.articles_processed = 1
    /\ known(ledger, step.link)

\* C10: fetch_all and post are called in a run only after test_connection
\* answered True in that run; when it answered False the run ends with
\* articles_found = 0, articles_processed = 0, an entry in errors and the
\* ledger as it was.
ConnectivityGate ==
    /\ (calls.fetch_all > 0 \/ calls.post > 0 \/ calls.summarize > 0 =>
            connection = "ok")
    /\ (connection = "failed" =>
            /\ pc \in {"finally_return", "done"}
            /\ stats.articles_found = 0
            /\ stats.articles_processed = 0
            /\ Len(stats.errors) >= 1
            /\ ledger = ledgerAtStart)

\* a second run whose connectivity check failed, ended, ledger non-empty
RunEndedOnFailedCheck ==
    /\ pc = "done" /\ connection = "failed" /\ run = 2
    /\ ledger # {}
    /\ calls.fetch_all = 0 /\ calls.post = 0

---------------------------------------------------------------------------
(* The scenario of a run in which everything works *)

\* every source serves exactly one entry, and no two entries share a link
EachSourceOneItem ==
    /\ \A s \in Sources : Len(feeds[s]) = 1
    /\ \A s, t \in Sources : s # t => feeds[s][1].link # feeds[t][1].link

\* fetch_all got the entry of every source
EverySourceAnswered ==
    \A s \in Sources : \E k \in 1..Len(articles) : articles[k].source = s

\* a run that ended, started on an empty ledger, in which every source
\* returned its one item, the cap is at least the number of sources, no
\* summary was missing and post never answered False
HappyRun ==
    /\ pc = "done"
    /\ ledgerAtStart = {}
    /\ EachSourceOneItem /\ EverySourceAnswered
    /\ config.max_articles_per_run >= Cardinality(Sources)
    /\ calls.no_summary = 0
    /\ calls.post = calls.summarize
    /\ calls.post_false = 0

---------------------------------------------------------------------------
(* Properties of the process, checked under SpecMain *)

\* the run has ended, whichever way
RunEnded == pc \in {"done", "raised", "interrupted", "exited", "crashed"}

\* the link of the article is not in the ledger the run started with (the
\* ledger is not written before the loop)
UnknownAtStart(article) == ~known(ledgerAtStart, article.link)

Smaller(a, b) == IF a < b THEN a ELSE b

\* C14: the articles attempted in a run are the first min(N, m) of the m
\* fetched articles whose link is unknown to the ledger, in the order of
\* fetch_all, N being max_articles_per_run; their number never exceeds N.
CapKeepsNewest ==
    pc \in {"process", "sleep", "report"} =>
        LET unknown == SelectSeq(articles, UnknownAtStart)
            N == config.max_articles_per_run
        IN /\ queue = SubSeq(unknown, 1, Smaller(N, Len(unknown)))
           /\ Len(queue) <= N

\* C36: in every state of a run the counters of stats satisfy
\* articles_processed + articles_failed <= min(articles_new, N)
\* <= articles_new <= articles_found, N being max_articles_per_run.
CountersConsistent ==
    pc \in {"process", "sleep", "report"} =>
        LET N == config.max_articles_per_run
        IN /\ stats.articles_processed + stats.articles_failed
                 <= Smaller(stats.articles_new, N)
           /\ Smaller(stats.articles_new, N) <= stats.articles_new
           /\ stats.articles_new <= stats.articles_found

\* C35: when a run has ended, articles_processed is the number of records
\* that the run added to the ledger.
ProcessedEqualsInserted ==
    pc = "done" =>
        stats.articles_processed = Cardinality(ledger \ ledgerAtStart)

\* C31: an exception raised in the body of run is caught by run and
\* appended to errors, and run then returns its stats: it does not end
\* with an exception.
BodyErrorReturnsStats ==
    calls.raised >= 1 =>
        /\ stats.errors # <<>>
        /\ pc \notin {"raised", "crashed"}
        /\ (RunEnded => pc \in {"done", "exited"})

FailedCheckExitsNonZero ==
    connection = "failed" /\ pc \in {"exited", "crashed"} =>
        /\ Len(stats.errors) >= 1
        /\ calls.fetch_all = 0
        /\ exit_code[1] # 0

\* C17: once the try block of run is entered, cleanup is entered before
\* the run ends, on every way out: failed connectivity check, nothing
\* fetched, normal completion, an exception, an interruption.
CleanupAlwaysEntered ==
    /\ (RunEnded => calls.cleanup = 1)
    /\ (calls.raised + calls.interrupted > 0 =>
            \/ pc \in {"finally_except", "finally_interrupt"}
            \/ calls.cleanup = 1)

\* an interruption during the loop, after a first article: cleanup ran
\* and closed both clients before the interruption went on
InterruptedRunCleanedUp ==
    /\ pc = "interrupted"
    /\ calls.interrupted = 1 /\ calls.summarize >= 1
    /\ calls.cleanup = 1
    /\ calls.aclose_telegram = 1 /\ calls.aclose_image = 1

\* C18: when a run has ended, aclose() has been called exactly once on
\* each client that was opened (the one of TelegramPoster by
\* test_connection, the one of ImageExtractor by the first article),
\* whichever stage or close raised; a close that itself raised counts as
\* made.
ClientsClosedOnce ==
    RunEnded =>
        /\ calls.aclose_telegram = (IF calls.test_connection > 0 THEN 1 ELSE 0)
        /\ calls.aclose_image = (IF calls.summarize > 0 THEN 1 ELSE 0)

\* C19: on every run the report is executed before the run ends, also when
\* nothing was fetched and after an exception.  The report is step 6 of run
\* (get_stats and the final counts); the closing of the stats after the
\* finally block (finished_at) is accepted in its place, and a run whose
\* connectivity check failed is left out (it goes to cleanup directly).
ReportAlwaysRuns ==
    RunEnded /\ connection = "ok" => calls.report = 1 \/ stats.finished

---------------------------------------------------------------------------
(* ImageExtractor.extract and NewsBot.process_article on their own: the
   page, the answers of the collaborators are drawn initially, the call is
   then made *)

\* no run, and no call of the parts that keep state
AtRest ==
    /\ feeds = [s \in Sources |-> <<>>]
    /\ config = [max_articles_per_run |-> DefaultMaxArticles,
                 rss_feeds |-> FeedOrder]
    /\ ledger = {}
    /\ pc = "idle"
    /\ run = 0
    /\ stats = NewStats
    /\ articles = <<>>
    /\ queue = <<>>
    /\ i = 0
    /\ clients = [telegram |-> FALSE, image |-> FALSE]
    /\ calls = NoCalls
    /\ connection = "none"
    /\ step = NoStep
    /\ ledgerAtStart = {}
    /\ delivered = [l \in Links |-> 0]
    /\ call = NoCall
    /\ fetched = NoFetch
    /\ recorded = NoRecord
    /\ exit_code = <<>>
    /\ failures = NoFailures
    /\ clock = 0
    /\ processed_at = [l \in Links |-> 0]
    /\ conns = NoConns
    /\ purged = NoPurge

Pages == [1..Len(Patterns) -> Candidates]

InitExtract ==
    /\ AtRest
    /\ entry = NoEntry
    /\ gathering = NoGather
    /\ procs = NoProcs
    /\ handled = NoHandled
    /\ steps = <<>>
    /\ \E env \in PageEnvs, page \in Pages :
         extracted = [NoExtract EXCEPT !.env = env, !.page = page]

\* await self.image_extractor.extract(link)
ExtractCall ==
    /\ ~extracted.made
    /\ extracted' = [extracted EXCEPT
                       !.made = TRUE,
                       !.out = extract_page(extracted.env, extracted.page)]
    /\ UNCHANGED <<feeds, ledger, pc, run, stats, articles, queue, i, clients,
                   calls, connection, step, ledgerAtStart, delivered, call,
                   fetched, recorded, exit_code, config, failures, handled,
                   steps, ledgerVars, partVars>>

NextExtract == ExtractCall

SpecExtract == InitExtract /\ [][NextExtract]_vars

HandledArticle == [link |-> "a", title |-> "T", published |-> 1, source |-> "s1"]

InitArticle ==
    /\ AtRest
    /\ entry = NoEntry
    /\ gathering = NoGather
    /\ procs = NoProcs
    /\ extracted = NoExtract
    /\ steps = <<>>
    /\ \E extEnv \in ExtractEnvs, sumEnv \in SummarizeEnvs,
          imgEnv \in SendEnvs, txtEnv \in SendEnvs :
         handled = [NoHandled EXCEPT !.extEnv = extEnv, !.sumEnv = sumEnv,
                                     !.imgEnv = imgEnv, !.txtEnv = txtEnv]

\* success = await self.process_article(article)
ArticleCall ==
    /\ ~handled.made
    /\ handled' = [handled EXCEPT
                     !.made = TRUE,
                     !.image_url = extract(handled.extEnv),
                     !.summary = summarize(handled.sumEnv),
                     !.out = process_article(HandledArticle, handled.extEnv,
                                             handled.sumEnv, handled.imgEnv,
                                             handled.txtEnv)]
    /\ UNCHANGED <<feeds, ledger, pc, run, stats, articles, queue, i, clients,
                   calls, connection, step, ledgerAtStart, delivered, call,
                   fetched, recorded, exit_code, config, failures, extracted,
                   steps, ledgerVars, partVars>>

NextArticle == ArticleCall

SpecArticle == InitArticle /\ [][NextArticle]_vars

---------------------------------------------------------------------------
(* The loop of run, await by await.  articles_to_process is drawn
   initially; handled holds the locals of the process_article call in
   progress, steps the steps completed so far *)

StepArticles == [link : Links, title : Titles, published : {1}, source : {"s1"}]

InitSteps ==
    /\ feeds = [s \in Sources |-> <<>>]
    /\ config = [max_articles_per_run |-> DefaultMaxArticles,
                 rss_feeds |-> FeedOrder]
    /\ ledger = {}
    /\ run = 1
    /\ stats = NewStats
    /\ articles = <<>>
    /\ queue \in SeqsUpTo(StepArticles, MaxEntries)
    /\ i = (IF queue = <<>> THEN 0 ELSE 1)
    /\ pc = (IF queue = <<>> THEN "report" ELSE "extract")
    /\ clients = [telegram |-> TRUE, image |-> FALSE]
    /\ calls = NoCalls
    /\ connection = "ok"
    /\ step = NoStep
    /\ ledgerAtStart = {}
    /\ delivered = [l \in Links |-> 0]
    /\ call = NoCall
    /\ fetched = NoFetch
    /\ recorded = NoRecord
    /\ exit_code = <<>>
    /\ failures = NoFailures
    /\ extracted = NoExtract
    /\ handled = NoHandled
    /\ steps = <<>>
    /\ clock = 0
    /\ processed_at = [l \in Links |-> 0]
    /\ conns = NoConns
    /\ purged = NoPurge
    /\ entry = NoEntry
    /\ gathering = NoGather
    /\ procs = NoProcs

stepsRest == <<feeds, run, articles, queue, clients, calls, connection, step,
               ledgerAtStart, delivered, call, fetched, recorded, exit_code,
               config, failures, extracted, ledgerVars, partVars>>

\* the step op of article i has completed
Completed(op, ok) ==
    Append(steps, [index |-> i, link |-> queue[i].link, op |-> op, ok |-> ok])

\* image_url = await self.image_extractor.extract(link)
ExtractStep ==
    /\ pc = "extract"
    /\ \E env \in ExtractEnvs :
         /\ handled' = [NoHandled EXCEPT !.image_url = extract(env)]
         /\ steps' = Completed("extract", extract(env) # None)
    /\ pc' = after_step("extract", TRUE, i, Len(queue))
    /\ UNCHANGED <<ledger, stats, i>>
    /\ UNCHANGED stepsRest

\* summary = await self.summarizer.summarize(article); without a summary
\* process_article returns False and run counts the article failed
SummarizeStep ==
    /\ pc = "summarize"
    /\ \E env \in SummarizeEnvs :
         LET summary == summarize(env)
             ok == ~summary.none /\ summary.text # <<>>
             next == after_step("summarize", ok, i, Len(queue))
         IN /\ handled' = [handled EXCEPT !.summary = summary]
            /\ steps' = Completed("summarize", ok)
            /\ pc' = next
            /\ stats' = IF next \in {"sleep", "report"}
                        THEN count(stats, FALSE) ELSE stats
    /\ UNCHANGED <<ledger, i>>
    /\ UNCHANGED stepsRest

\* success = await self.telegram.post(text = summary, image_url = image_url);
\* after False run counts the article failed
PostStep ==
    /\ pc = "post"
    /\ \E imgEnv \in SendEnvs, txtEnv \in SendEnvs :
         LET sent == post(handled.summary.text, handled.image_url, imgEnv, txtEnv)
             next == after_step("post", sent.result, i, Len(queue))
         IN /\ handled' = [handled EXCEPT !.made = TRUE,
                                          !.out.posted = TRUE,
                                          !.out.result = sent.result,
                                          !.out.success = sent.result]
            /\ steps' = Completed("post", sent.result)
            /\ pc' = next
            /\ stats' = IF next \in {"sleep", "report"}
                        THEN count(stats, FALSE) ELSE stats
    /\ UNCHANGED <<ledger, i>>
    /\ UNCHANGED stepsRest

\* self.db.mark_processed(...) and articles_processed += 1
MarkStep ==
    /\ pc = "mark_processed"
    /\ \E dbError \in BOOLEAN :
         LET done == mark_processed(ledger, queue[i].link, queue[i].title,
                                    queue[i].source, dbError)
         IN /\ ledger' = done.db
            /\ steps' = Completed("mark_processed", done.inserted)
    /\ stats' = count(stats, TRUE)
    /\ pc' = after_step("mark_processed", TRUE, i, Len(queue))
    /\ UNCHANGED <<handled, i>>
    /\ UNCHANGED stepsRest

\* await asyncio.sleep(3), then the next article
SleepStep ==
    /\ pc = "sleep"
    /\ steps' = Completed("sleep", TRUE)
    /\ i' = i + 1
    /\ pc' = after_step("sleep", TRUE, i, Len(queue))
    /\ UNCHANGED <<ledger, stats, handled>>
    /\ UNCHANGED stepsRest

NextSteps ==
    \/ ExtractStep
    \/ SummarizeStep
    \/ PostStep
    \/ MarkStep
    \/ SleepStep

SpecSteps == InitSteps /\ [][NextSteps]_vars

---------------------------------------------------------------------------
(* The text fields of one feed entry: the raw text is drawn initially, put
   together from pieces of markup, entities, whitespace and letters, and
   fetch_feed cleans it into title, summary and content *)

\* longest raw text, in pieces
MaxPieces == 3

\* "<b>", "&lt;", "&gt;", "&amp;", "&nbsp;", " ", "x", "lt;", "b"
Pieces ==
    {<<60, 98, 62>>, <<38, 108, 116, 59>>, <<38, 103, 116, 59>>,
     <<38, 97, 109, 112, 59>>, <<38, 110, 98, 115, 112, 59>>, <<32>>, <<120>>,
     <<108, 116, 59>>, <<98>>}

RECURSIVE RawTexts(_)
RawTexts(n) ==
    IF n = 0 THEN {<<>>}
    ELSE RawTexts(n - 1) \cup {t \o piece : t \in RawTexts(n - 1), piece \in Pieces}

InitClean ==
    /\ AtRest
    /\ extracted = NoExtract
    /\ handled = NoHandled
    /\ steps = <<>>
    /\ gathering = NoGather
    /\ procs = NoProcs
    /\ \E raw \in RawTexts(MaxPieces) : entry = [NoEntry EXCEPT !.raw = raw]

\* the article fetch_feed builds of an entry whose title and summary are
\* the raw text and which has no content of its own
CleanCall ==
    /\ ~entry.made
    /\ entry' = [entry EXCEPT
                    !.made = TRUE,
                    !.title = clean_text(entry.raw),
                    !.summary = clean_html(entry.raw),
                    !.content = clean_html(entry.raw)]
    /\ UNCHANGED <<feeds, ledger, pc, run, stats, articles, queue, i, clients,
                   calls, connection, step, ledgerAtStart, delivered, call,
                   fetched, recorded, exit_code, config, failures,
                   articleVars, ledgerVars, gathering, procs>>

NextClean == CleanCall

SpecClean == InitClean /\ [][NextClean]_vars

---------------------------------------------------------------------------
(* RSSParser.fetch_all task by task: the feeds are drawn initially, with
   and without dates; gather starts one fetch_feed per source, the fetches
   complete in any order, each one failing or not, and fetch_all returns
   when all have completed *)

\* entries of one feed
MaxGathered == 2

GatherEntry == [link : {"a"}, title : Titles, published : {NoDate} \cup (1..MaxTime)]

InitGather ==
    /\ config = [max_articles_per_run |-> DefaultMaxArticles,
                 rss_feeds |-> FeedOrder]
    /\ ledger = {}
    /\ pc = "idle"
    /\ run = 0
    /\ stats = NewStats
    /\ articles = <<>>
    /\ queue = <<>>
    /\ i = 0
    /\ clients = [telegram |-> FALSE, image |-> FALSE]
    /\ calls = NoCalls
    /\ connection = "none"
    /\ step = NoStep
    /\ ledgerAtStart = {}
    /\ delivered = [l \in Links |-> 0]
    /\ call = NoCall
    /\ fetched = NoFetch
    /\ recorded = NoRecord
    /\ exit_code = <<>>
    /\ failures = NoFailures
    /\ clock = 0
    /\ processed_at = [l \in Links |-> 0]
    /\ conns = NoConns
    /\ purged = NoPurge
    /\ extracted = NoExtract
    /\ handled = NoHandled
    /\ steps = <<>>
    /\ entry = NoEntry
    /\ procs = NoProcs
    /\ gathering = NoGather
    /\ feeds \in [Sources -> SeqsUpTo(GatherEntry, MaxGathered)]

\* tasks = [self.fetch_feed(feed) for feed in self.feeds]; gather(*tasks)
GatherStart ==
    /\ gathering.pc = "idle"
    /\ gathering' = [gathering EXCEPT !.pc = "running"]
    /\ UNCHANGED <<feeds, ledger, pc, run, stats, articles, queue, i, clients,
                   calls, connection, step, ledgerAtStart, delivered, call,
                   fetched, recorded, exit_code, config, failures,
                   articleVars, ledgerVars, entry, procs>>

\* the fetch of one source completes, with a feed or with an exception
FetchDone(source) ==
    /\ gathering.pc = "running"
    /\ \A k \in 1..Len(gathering.order) : gathering.order[k] # source
    /\ \E failed \in BOOLEAN :
         gathering' = complete(gathering, source, failed)
    /\ UNCHANGED <<feeds, ledger, pc, run, stats, articles, queue, i, clients,
                   calls, connection, step, ledgerAtStart, delivered, call,
                   fetched, recorded, exit_code, config, failures,
                   articleVars, ledgerVars, entry, procs>>

\* gather returns when every task is done; the results are merged and
\* sorted
GatherReturn ==
    /\ gathering.pc = "running"
    /\ Len(gathering.order) = Len(config.rss_feeds)
    /\ gathering' = [gathering EXCEPT !.pc = "returned", !.out = gathered(gathering)]
    /\ UNCHANGED <<feeds, ledger, pc, run, stats, articles, queue, i, clients,
                   calls, connection, step, ledgerAtStart, delivered, call,
                   fetched, recorded, exit_code, config, failures,
                   articleVars, ledgerVars, entry, procs>>

NextGather ==
    \/ GatherStart
    \/ \E source \in Sources : FetchDone(source)
    \/ GatherReturn

SpecGather == InitGather /\ [][NextGather]_vars

---------------------------------------------------------------------------
(* Properties of the concurrent fetches, checked under SpecGather *)

\* the orders in which the fetches can complete
CompletionOrders ==
    {o \in [1..Len(FeedOrder) -> Sources] :
        \A j, k \in 1..Len(FeedOrder) : j # k => o[j] # o[k]}

\* what fetch_all returns when the fetches complete in the order o and
\* those of failedSources fail
RECURSIVE CompletedIn(_, _, _)
CompletedIn(o, k, failedSources) ==
    IF k = 0 THEN [NoGather EXCEPT !.pc = "running"]
    ELSE complete(CompletedIn(o, k - 1, failedSources), o[k],
                  o[k] \in failedSources)

\* the sources of the articles of a list, in its order
SourcesOf(list) == [k \in 1..Len(list) |-> list[k].source]

\* C32: fetch_all returns when every fetch has completed or failed, and
\* the order of what it returns is the same whatever the order in which
\* the fetches completed: for the same feeds and the same failures every
\* completion order gives the articles in the same order of sources.
SameOrderUnderEveryCompletion ==
    gathering.pc = "returned" =>
        /\ Len(gathering.order) = Len(FeedOrder)
        /\ \A o \in CompletionOrders :
              SourcesOf(gathering.out) =
                 SourcesOf(gathered(CompletedIn(o, Len(FeedOrder), gathering.failed)))

---------------------------------------------------------------------------
(* Two processes that run NewsBot.run on the same feeds and the same
   ledger file.  Each one filters, then publishes and records its articles
   one by one; a process can be killed at any point after it started.  The
   steps of the two interleave freely: nothing in the code keeps a second
   process from starting while the first one runs *)

Other(p) == CHOOSE q \in Procs : q # p

\* the links that have been published
Published == {l \in Links : delivered[l] > 0}

\* where the loop of a process goes on when `left` is what remains to do
after_item(left) == IF left = <<>> THEN "done" ELSE "loop"

\* where a process is, seen from outside
Running(p) == procs[p].pc \in {"loop", "mark"}

\* the feeds of Init in which no link is served twice, the default cap
InitShared ==
    /\ Init
    /\ config.max_articles_per_run = DefaultMaxArticles
    /\ LET all == feeds[FeedOrder[1]] \o feeds[FeedOrder[2]]
       IN \A j, k \in 1..Len(all) : j # k => all[j].link # all[k].link

\* run, steps 1 to 4: the connectivity check passes, every source answers,
\* the articles are filtered against the ledger as it is now and cut to
\* max_articles_per_run
FilterIn(p) ==
    /\ procs[p].pc = "idle"
    /\ LET fetchedNow == fetch_all({})
       IN \E dbErrors \in SUBSET (1..Len(fetchedNow)) :
            LET new == new_articles(fetchedNow, ledger, dbErrors)
                todo == articles_to_process(new, config.max_articles_per_run)
            IN procs' = [procs EXCEPT
                           ![p].pc = after_item(todo),
                           ![p].queue = todo,
                           ![p].prior = Published,
                           ![p].found = ledger,
                           ![p].follows = IF Running(Other(p)) THEN "running"
                                          ELSE procs[Other(p)].pc,
                           ![p].dbErrors = dbErrors # {}]
    /\ UNCHANGED <<feeds, pc, run, stats, articles, queue, i, clients, calls,
                   connection, step, ledgerAtStart, call, fetched, recorded,
                   exit_code, config, failures, articleVars, ledgerVars,
                   entry, gathering, ledger, delivered>>

\* run, step 5: process_article of the next article; True when it was
\* published
PublishIn(p) ==
    /\ procs[p].pc = "loop"
    /\ LET article == Head(procs[p].queue)
       IN \E success \in BOOLEAN :
            /\ delivered' = IF success
                            THEN [delivered EXCEPT ![article.link] =
                                    IF @ < DeliveredCap THEN @ + 1 ELSE @]
                            ELSE delivered
            /\ procs' = [procs EXCEPT
                           ![p].pc = IF success THEN "mark"
                                     ELSE after_item(Tail(procs[p].queue)),
                           ![p].queue = IF success THEN @ ELSE Tail(@),
                           ![p].sent = IF success THEN @ \cup {article.link} ELSE @]
    /\ UNCHANGED <<feeds, pc, run, stats, articles, queue, i, clients, calls,
                   connection, step, ledgerAtStart, call, fetched, recorded,
                   exit_code, config, failures, articleVars, ledgerVars,
                   entry, gathering, ledger>>

\* run, step 5: mark_processed of the article that was published
MarkIn(p) ==
    /\ procs[p].pc = "mark"
    /\ LET article == Head(procs[p].queue)
       IN \E dbError \in BOOLEAN :
            /\ ledger' = commit(TRUE, ledger, article, dbError)
            /\ procs' = [procs EXCEPT
                           ![p].pc = after_item(Tail(procs[p].queue)),
                           ![p].queue = Tail(@),
                           ![p].dbErrors = @ \/ dbError]
    /\ UNCHANGED <<feeds, pc, run, stats, articles, queue, i, clients, calls,
                   connection, step, ledgerAtStart, call, fetched, recorded,
                   exit_code, config, failures, articleVars, ledgerVars,
                   entry, gathering, delivered>>

\* the process is killed: nothing of run is executed any more, what was
\* committed to the ledger file stays
Crash(p) ==
    /\ Running(p)
    /\ procs' = [procs EXCEPT ![p].pc = "crashed"]
    /\ UNCHANGED <<feeds, pc, run, stats, articles, queue, i, clients, calls,
                   connection, step, ledgerAtStart, call, fetched, recorded,
                   exit_code, config, failures, articleVars, ledgerVars,
                   entry, gathering, ledger, delivered>>

NextShared ==
    \E p \in Procs :
        \/ FilterIn(p)
        \/ PublishIn(p)
        \/ MarkIn(p)
        \/ Crash(p)

SpecShared == InitShared /\ [][NextShared]_vars

---------------------------------------------------------------------------
(* Runs repeated for ever by one process on unchanged feeds: the
   connectivity check passes and every source answers in every run, the
   ledger calls succeed; the articles of the links in `failing` fail in
   every run (no summary, or the publish refused), all others are
   published when they are attempted.  Every step of a run completes and
   a run is always followed by another one *)

Repeating == "p1"

InitLive ==
    /\ feeds \in FeedSets
    /\ config \in [max_articles_per_run : {1, DefaultMaxArticles},
                  rss_feeds : {FeedOrder}]
    /\ ledger = {}
    /\ pc = "idle"
    /\ run = 0
    /\ stats = NewStats
    /\ articles = <<>>
    /\ queue = <<>>
    /\ i = 0
    /\ clients = [telegram |-> FALSE, image |-> FALSE]
    /\ calls = NoCalls
    /\ connection = "none"
    /\ step = NoStep
    /\ ledgerAtStart = {}
    /\ delivered = [l \in Links |-> 0]
    /\ call = NoCall
    /\ fetched = NoFetch
    /\ recorded = NoRecord
    /\ exit_code = <<>>
    /\ failures = NoFailures
    /\ extracted = NoExtract
    /\ handled = NoHandled
    /\ steps = <<>>
    /\ clock = 0
    /\ processed_at = [l \in Links |-> 0]
    /\ conns = NoConns
    /\ purged = NoPurge
    /\ entry = NoEntry
    /\ gathering = NoGather
    /\ LET all == feeds[FeedOrder[1]] \o feeds[FeedOrder[2]]
       IN \A j, k \in 1..Len(all) : j # k => all[j].link # all[k].link
    /\ \E failing \in SUBSET Links :
         procs = [NoProcs EXCEPT ![Repeating].failing = failing]

\* a run starts, the first one or the one after a run that has ended:
\* steps 1 to 4 of run
NextRun ==
    /\ procs[Repeating].pc \in {"idle", "done"}
    /\ LET new == new_articles(fetch_all({}), ledger, {})
           todo == articles_to_process(new, config.max_articles_per_run)
       IN procs' = [procs EXCEPT ![Repeating].pc = after_item(todo),
                                 ![Repeating].queue = todo,
                                 ![Repeating].prior = Published,
                                 ![Repeating].found = ledger]
    /\ UNCHANGED <<feeds, pc, run, stats, articles, queue, i, clients, calls,
                   connection, step, ledgerAtStart, call, fetched, recorded,
                   exit_code, config, failures, articleVars, ledgerVars,
                   entry, gathering, ledger, delivered>>

\* process_article of the next article: it fails when its link is one of
\* those that fail every time
PublishNext ==
    /\ procs[Repeating].pc = "loop"
    /\ LET article == Head(procs[Repeating].queue)
           success == article.link \notin procs[Repeating].failing
       IN /\ delivered' = IF success
                          THEN [delivered EXCEPT ![article.link] =
                                  IF @ < DeliveredCap THEN @ + 1 ELSE @]
                          ELSE delivered
          /\ procs' = [procs EXCEPT
                         ![Repeating].pc =
                             IF success THEN "mark"
                             ELSE after_item(Tail(procs[Repeating].queue)),
                         ![Repeating].queue = IF success THEN @ ELSE Tail(@),
                         ![Repeating].sent =
                             IF success THEN @ \cup {article.link} ELSE @]
    /\ UNCHANGED <<feeds, pc, run, stats, articles, queue, i, clients, calls,
                   connection, step, ledgerAtStart, call, fetched, recorded,
                   exit_code, config, failures, articleVars, ledgerVars,
                   entry, gathering, ledger>>

\* mark_processed of the article that was published
MarkNext ==
    /\ procs[Repeating].pc = "mark"
    /\ LET article == Head(procs[Repeating].queue)
       IN /\ ledger' = commit(TRUE, ledger, article, FALSE)
          /\ procs' = [procs EXCEPT
                         ![Repeating].pc = after_item(Tail(procs[Repeating].queue)),
                         ![Repeating].queue = Tail(@)]
    /\ UNCHANGED <<feeds, pc, run, stats, articles, queue, i, clients, calls,
                   connection, step, ledgerAtStart, call, fetched, recorded,
                   exit_code, config, failures, articleVars, ledgerVars,
                   entry, gathering, delivered>>

NextLive ==
    \/ NextRun
    \/ PublishNext
    \/ MarkNext

SpecLive == InitLive /\ [][NextLive]_vars /\ WF_vars(NextLive)

---------------------------------------------------------------------------
(* Properties of the repeated runs, checked under SpecLive *)

\* the links the feeds serve
ServedLinks == {l \in Links : \E s \in Sources : \E k \in 1..Len(feeds[s]) :
                                 feeds[s][k].link = l}

\* C37: over the repeated runs every fetched article whose own summary
\* and publish succeed is eventually published and recorded, whatever
\* other articles fail in every run.
EveryGoodItemEventuallyPublished ==
    \A l \in Links :
        (l \in ServedLinks /\ l \notin procs[Repeating].failing)
            ~> (delivered[l] > 0 /\ known(ledger, l))

---------------------------------------------------------------------------
(* Properties of two processes on one ledger, checked under SpecShared *)

\* the run of p started while the run of the other one was under way
Overlapped(p) == procs[p].follows = "running"

\* C38: two runs that overlap and share the ledger do not both publish the
\* same link, however their filter, publish and record steps interleave.
OverlappingRunsPublishOnce ==
    \A p \in Procs :
        Overlapped(p) => procs[p].sent \cap procs[Other(p)].sent = {}

\* the run of p started after the run of the other one had crashed
AfterCrash(p) == procs[p].follows = "crashed"

\* C34: the run that follows a crashed run publishes again at most one
\* link that was already published, and the records committed before the
\* crash are still in the ledger.
CrashRepeatsAtMostOne ==
    \A p \in Procs :
        AfterCrash(p) =>
            /\ procs[p].found \subseteq ledger
            /\ Cardinality(procs[p].sent \cap procs[p].prior) <= 1

---------------------------------------------------------------------------
(* Properties of the cleaning, checked under SpecClean *)

\* no tag, no run of whitespace, no entity of the table, 2000 characters
\* at most
Cleaned(text) ==
    /\ ~HasTag(text)
    /\ ~HasSpaceRun(text)
    /\ ~HasEntity(text)
    /\ Len(text) <= HtmlLimit

\* C33: title, summary and content of every article of fetch_feed are
\* clean, whatever the raw text of the entry: no markup tag, no run of two
\* or more whitespace characters, no entity of the table, and at most 2000
\* characters.
EntryTextsClean ==
    entry.made =>
        /\ Cleaned(entry.title)
        /\ Cleaned(entry.summary)
        /\ Cleaned(entry.content)

---------------------------------------------------------------------------
(* Properties of the order of the steps, checked under SpecSteps *)

\* the position of op in StepOps
Rank(op) == CHOOSE k \in 1..Len(StepOps) : StepOps[k] = op

\* step q of steps is preceded by the step op of the same article, and
\* that step succeeded
Preceded(q, op) ==
    \E p \in 1..(q - 1) :
        /\ steps[p].index = steps[q].index
        /\ steps[p].op = op /\ (op = "extract" \/ steps[p].ok)

\* C29: the steps of the loop complete one at a time, article by article
\* in the order of articles_to_process, and for one article in the order
\* extract, summarize, post, mark_processed (then the pause): every step of
\* article i is completed before any step of a later article, post is
\* made only after summarize gave a summary, mark_processed only after post
\* answered True.
StepsInOrder ==
    /\ \A p, q \in 1..Len(steps) :
         p < q =>
            \/ steps[p].index < steps[q].index
            \/ /\ steps[p].index = steps[q].index
               /\ Rank(steps[p].op) < Rank(steps[q].op)
    /\ \A q \in 1..Len(steps) :
         /\ steps[q].index \in 1..Len(queue)
         /\ steps[q].link = queue[steps[q].index].link
         /\ (steps[q].op = "summarize" => Preceded(q, "extract"))
         /\ (steps[q].op = "post" => Preceded(q, "summarize"))
         /\ (steps[q].op = "mark_processed" => Preceded(q, "post"))
    /\ \A k \in 1..(i - 1) :
         \E q \in 1..Len(steps) : steps[q].index = k /\ steps[q].op = "extract"

\* two articles were published and recorded, one after the other
TwoItemsInTurn ==
    /\ pc = "report"
    /\ Len(queue) = 2
    /\ [q \in 1..Len(steps) |-> <<steps[q].index, steps[q].op>>]
         = << <<1, "extract">>, <<1, "summarize">>, <<1, "post">>,
              <<1, "mark_processed">>, <<1, "sleep">>,
              <<2, "extract">>, <<2, "summarize">>, <<2, "post">>,
              <<2, "mark_processed">> >>

---------------------------------------------------------------------------
(* Properties of ImageExtractor.extract, checked under SpecExtract *)

\* the position of the first pattern of the list that matches, 0 when none
FirstMatch(page) ==
    IF \A k \in 1..Len(Patterns) : page[k] = "none" THEN 0
    ELSE CHOOSE k \in 1..Len(Patterns) :
            /\ page[k] # "none"
            /\ \A j \in 1..(k - 1) : page[j] = "none"

\* C24: on a page that was fetched, the patterns are tried in the order
\* og:image (both attribute orders), then twitter:image, and the first
\* pattern that matches decides: its candidate is returned when it is a
\* valid image URL, otherwise None is returned; no later pattern counts.
FirstMatchDecides ==
    extracted.made /\ extracted.env = "200" =>
        LET first == FirstMatch(extracted.page)
        IN IF first = 0 THEN extracted.out = NoImage
           ELSE IF is_valid_image_url(extracted.page[first])
           THEN extracted.out = [image |-> TRUE, pattern |-> first,
                                 candidate |-> extracted.page[first]]
           ELSE extracted.out = NoImage

---------------------------------------------------------------------------
(* Properties of NewsBot.process_article, checked under SpecArticle *)

\* the summary that process_article goes on with
HasSummary == ~handled.summary.none /\ handled.summary.text # <<>>

\* C25: extract answers None, and raises nothing, when the page is not
\* fetched (status, timeout, any other error), when no pattern matches and
\* when no candidate is valid; the article is then still summarized and,
\* with a summary, posted, and whether it succeeds is decided by the
\* summary and by the answer of post alone (text-only when there is no
\* image).
MissingImageNeverFailsItem ==
    handled.made =>
        /\ (handled.extEnv # "image" => handled.image_url = None)
        /\ handled.out.posted = HasSummary
        /\ handled.out.success =
              (HasSummary /\ post(handled.summary.text, handled.image_url,
                                  handled.imgEnv, handled.txtEnv).result)
        /\ (handled.image_url = None =>
              handled.out.success = (HasSummary /\ handled.txtEnv = "200"))

\* the page timed out, the article was published without image
ItemWithoutImagePublished ==
    /\ handled.made
    /\ handled.extEnv = "timeout" /\ handled.image_url = None
    /\ handled.out.posted /\ handled.out.success

\* the answers of the model on which summarize gives nothing: a blocked or
\* empty response, and the exceptions of generate_content
SummarizeFailures ==
    {"blocked", "empty", "invalid_argument", "resource_exhausted",
     "api_error", "error"}

\* C26: on a blocked or empty response and on every exception of the model
\* (invalid argument, quota, API error, anything else) summarize answers
\* None and raises nothing; process_article then answers False without
\* calling post: the article fails, nothing else does.
SummarizeErrorFailsItem ==
    handled.made /\ handled.sumEnv \in SummarizeFailures =>
        /\ handled.summary.none
        /\ handled.out.summaryNone
        /\ ~handled.out.posted
        /\ ~handled.out.result
        /\ ~handled.out.success

\* the quota was exhausted: no summary, the article failed unposted
QuotaErrorFailedItem ==
    /\ handled.made
    /\ handled.sumEnv = "resource_exhausted"
    /\ handled.summary.none
    /\ ~handled.out.posted /\ ~handled.out.success

\* the responses of the model that are nothing but code fence or whitespace
BlankResponses == {"only_fence", "whitespace"}

\* C39: post is called only with a summary that is present and not empty:
\* for every response of the model the item is posted exactly with the
\* cleaned, stripped, non-empty text, and an item that is not posted (no
\* response, or a response of code fence or whitespace only, cleaned to "")
\* is answered False, which run counts as failed.
PostOnlyWithText ==
    handled.made =>
        /\ (handled.out.posted =>
              /\ ~handled.summary.none
              /\ handled.summary.text # <<>>
              /\ handled.summary.text =
                    strip(clean_response(generate_sync(handled.sumEnv).text))
              /\ Head(handled.summary.text) \notin Whitespace)
        /\ (handled.sumEnv \in BlankResponses => ~handled.out.posted)
        /\ (~handled.out.posted => ~handled.out.result /\ ~handled.out.success)

\* the response was a code fence only: cleaned to "", nothing posted, the
\* article failed
FenceOnlyResponseFailed ==
    /\ handled.made
    /\ handled.sumEnv = "only_fence"
    /\ ~handled.summary.none /\ handled.summary.text = <<>>
    /\ ~handled.out.posted /\ ~handled.out.success

---------------------------------------------------------------------------
(* Properties of the loop of run, checked under Spec *)

\* C30: a run that attempted k articles has made exactly max(k - 1, 0)
\* pauses; the pause that is about to be made follows article i and another
\* article comes after it, and article i starts after i - 1 pauses.
PausesBetweenItems ==
    /\ (pc = "sleep" =>
          /\ i < Len(queue)
          /\ step.valid /\ step.index = i
          /\ calls.summarize = i /\ calls.sleep = i - 1)
    /\ (pc = "process" =>
          calls.summarize = i - 1 /\ calls.sleep = i - 1)
    /\ (pc \notin {"sleep", "process"} =>
          calls.sleep = (IF calls.summarize > 0 THEN calls.summarize - 1 ELSE 0))

\* the loop is over after two articles and one pause
OnePauseForTwoItems ==
    /\ pc = "report"
    /\ Len(queue) = 2 /\ calls.summarize = 2
    /\ calls.sleep = 1

\* C22: a mark_processed that hits sqlite3.Error leaves the table as it
\* was, answers False, and is the only call made for that article (run
\* calls mark_processed once per published article and never again); a
\* link that was unknown before the failed write is unknown after it, so
\* is_processed answers False for it in the next run.
FailedWriteRolledBack ==
    /\ (step.valid /\ step.writeError =>
          /\ ledger = step.ledgerBefore
          /\ ~step.inserted
          /\ (~known(step.ledgerBefore, step.link) =>
                /\ ~known(ledger, step.link)
                /\ \A dbError \in BOOLEAN :
                      ~is_processed(ledger, step.link, dbError)))
    /\ calls.mark_processed = calls.post - calls.post_false
    /\ calls.write_error <= calls.mark_processed

\* an article was published, its write failed, and its link is unknown
FailedWriteLeftLinkUnknown ==
    /\ step.valid /\ step.writeError
    /\ step.posted /\ step.result /\ ~step.inserted
    /\ ~known(ledger, step.link)
    /\ calls.mark_processed = 1 /\ calls.write_error = 1

---------------------------------------------------------------------------
(* Properties of the ledger file, checked under SpecLedger *)

\* the table holds one row at most per link
OneRowPerLink == \A r1, r2 \in ledger : r1.link = r2.link => r1 = r2

\* w and v have both returned from mark_processed calls for one link that
\* was not in the table when they connected, and the calls overlapped
ConcurrentPair(w, v) ==
    /\ w # v
    /\ conns[w].pc = "returned" /\ conns[v].pc = "returned"
    /\ conns[w].link = conns[v].link
    /\ conns[w].overlapped /\ conns[v].overlapped
    /\ conns[w].fresh /\ conns[v].fresh

PurgeRemovesOld ==
    purged.made /\ ~purged.dbError =>
        /\ purged.answer = purged.found
        /\ purged.lost = 0
        /\ \A r \in ledger :
              ~(processed_at[r.link] < purged.now - purged.days)

---------------------------------------------------------------------------
(* Waiting for the network, checked under SpecMain *)

\* C28: no call of run that waits for the network (connectivity check,
\* feed fetch, image fetch, publish) waits without bound: a run is never
\* stuck in such a call, whatever the peer does, and so goes on to cleanup.
NetworkCallsResolve == pc # "hung"

---------------------------------------------------------------------------
(* Retry of failed articles, checked under SpecRetry *)

LinksOf(s) == {s[k].link : k \in 1..Len(s)}

\* C27: an article that failed in a run is not recorded by that run, and
\* in the next run, when the connectivity check passed and fetch_all
\* returned its link again, it is among the articles that run attempts.
FailedItemRetried ==
    /\ \A l \in failures.now :
         ~known(ledgerAtStart, l) => ~known(ledger, l)
    /\ (pc \in {"process", "sleep", "report"} /\ connection = "ok" =>
          \A l \in failures.last :
             l \in LinksOf(articles) => l \in LinksOf(queue))


===========================================================================
